---- MODULE Spec2Model ----
(***************************************************************************)
(* A model of emailer.py, the Flask application that receives GitHub push  *)
(* webhooks on /commit-email, verifies their HMAC-SHA1 signature, and      *)
(* mails a merge notification through an SMTP relay.                       *)
(*                                                                         *)
(* Text is a sequence of Unicode code points and a byte string a sequence  *)
(* of numbers in 0..255, so that encoding, hashing, searching, slicing and *)
(* joining are computed as Python computes them.                           *)
(***************************************************************************)
EXTENDS Integers, Sequences, FiniteSets, TLC

VARIABLES
    environ,       \* os.environ: the configured variables and their values
    request,       \* the webhook request being handled, or NoRequest
    pc,            \* the handler's position
    response,      \* what the request ended with
    log,           \* the calls made while handling the request, in order
    secret,        \* commit_email's local: the shared secret
    json_dict,     \* commit_email's local: the parsed body
    changes,       \* commit_email's local: the changed-files listing
    pusher_email,  \* commit_email's local: the formatted pusher address
    lookup,        \* what requests.get met: an exception or a response
    prURL,         \* commit_email's local: the pull-request URL
    msg_info,      \* the argument of _send_email
    message,       \* _send_email's local: the headers of the MIME message
    smtp,          \* the mail-relay connections opened and their state
    outbox,        \* what sendmail was given
    call,          \* a direct call of one function, as the unit tests make
    ret            \* what that call returned

vars == <<environ, request, pc, response, log, secret, json_dict, changes,
          pusher_email, lookup, prURL, msg_info, message, smtp, outbox, call, ret>>

(***************************************************************************)
(* Python values.  A value carries its type, so that str and bytes, None   *)
(* and a missing key, a list and a dict behave as they do in the program.  *)
(***************************************************************************)
PyNone == [t |-> "None"]
Str(s) == [t |-> "str", v |-> s]
Bytes(b) == [t |-> "bytes", v |-> b]
Bool(b) == [t |-> "bool", v |-> b]
List(l) == [t |-> "list", v |-> l]
Dict(d) == [t |-> "dict", v |-> d]
Raise(e) == [t |-> "raise", exc |-> e]
IsRaise(x) == x.t = "raise"

\* obj[key] for a string key: KeyError when a dict lacks it, TypeError when
\* obj is None (or any value that has no string subscripts).
GetItem(obj, key) ==
    IF IsRaise(obj) THEN obj
    ELSE IF obj.t = "dict"
         THEN IF key \in DOMAIN obj.v THEN obj.v[key] ELSE Raise("KeyError")
         ELSE Raise("TypeError")

\* obj[0]: the first element of a list, IndexError when it is empty; a dict
\* has no key 0 (KeyError); None and numbers have no subscripts (TypeError).
GetFirst(obj) ==
    IF IsRaise(obj) THEN obj
    ELSE IF obj.t = "list"
         THEN IF Len(obj.v) > 0 THEN obj.v[1] ELSE Raise("IndexError")
         ELSE IF obj.t = "str"
              THEN IF Len(obj.v) > 0 THEN Str(<<obj.v[1]>>) ELSE Raise("IndexError")
              ELSE IF obj.t = "dict" THEN Raise("KeyError") ELSE Raise("TypeError")

\* bool(x)
Truthy(x) ==
    IF x.t = "bool" THEN x.v
    ELSE IF x.t \in {"str", "bytes", "list"} THEN Len(x.v) > 0
    ELSE IF x.t = "dict" THEN DOMAIN x.v # {}
    ELSE FALSE

\* '{0}'.format(x) for the values the handler formats: the text itself for a
\* str, "True" or "False" for a bool, "None" for None.
FormatValue(x) ==
    IF x.t = "str" THEN x.v
    ELSE IF x.t = "bool" THEN (IF x.v THEN <<84, 114, 117, 101>> ELSE <<70, 97, 108, 115, 101>>)
    ELSE <<78, 111, 110, 101>>

(***************************************************************************)
(* Text and byte-string operations.                                        *)
(***************************************************************************)
\* needle in hay, for two texts
Contains(needle, hay) ==
    \E i \in 0..(Len(hay) - Len(needle)) : SubSeq(hay, i + 1, i + Len(needle)) = needle

\* s[:n]
Prefix(s, n) == SubSeq(s, 1, IF Len(s) < n THEN Len(s) ELSE n)

\* sep.join(parts)
RECURSIVE JoinRange(_, _, _, _)
JoinRange(sep, parts, lo, hi) ==
    IF lo > hi THEN <<>>
    ELSE IF lo = hi THEN parts[lo]
    ELSE LET mid == (lo + hi) \div 2
         IN JoinRange(sep, parts, lo, mid) \o sep \o JoinRange(sep, parts, mid + 1, hi)
Join(sep, parts) == JoinRange(sep, parts, 1, Len(parts))

\* str.encode('utf-8') of one code point (surrogates are not text)
Utf8Char(c) ==
    IF c < 128 THEN <<c>>
    ELSE IF c < 2048 THEN <<192 + (c \div 64), 128 + (c % 64)>>
    ELSE IF c < 65536
         THEN <<224 + (c \div 4096), 128 + ((c \div 64) % 64), 128 + (c % 64)>>
         ELSE <<240 + (c \div 262144), 128 + ((c \div 4096) % 64),
                128 + ((c \div 64) % 64), 128 + (c % 64)>>
RECURSIVE Utf8Range(_, _, _)
Utf8Range(s, lo, hi) ==
    IF lo > hi THEN <<>>
    ELSE IF lo = hi THEN Utf8Char(s[lo])
    ELSE LET mid == (lo + hi) \div 2
         IN Utf8Range(s, lo, mid) \o Utf8Range(s, mid + 1, hi)
\* bytes(s, encoding='utf-8')
Utf8(s) == Utf8Range(s, 1, Len(s))

(***************************************************************************)
(* SHA-1 and HMAC, as hmac.new(secret, body, digestmod="sha1") computes    *)
(* them.  A 32-bit word is a pair <<high, low>> of 16-bit halves, so that  *)
(* no intermediate value leaves the range of a 32-bit integer.             *)
(***************************************************************************)
AsTuple(f) == f \o <<>>

Bit(x, i) == (x \div (2^i)) % 2
NibbleXor ==
    AsTuple([a \in 1..16 |-> AsTuple([b \in 1..16 |->
        ((Bit(a-1, 0) + Bit(b-1, 0)) % 2) + 2 * ((Bit(a-1, 1) + Bit(b-1, 1)) % 2)
        + 4 * ((Bit(a-1, 2) + Bit(b-1, 2)) % 2) + 8 * ((Bit(a-1, 3) + Bit(b-1, 3)) % 2)])])
NibbleAnd ==
    AsTuple([a \in 1..16 |-> AsTuple([b \in 1..16 |->
        (Bit(a-1, 0) * Bit(b-1, 0)) + 2 * (Bit(a-1, 1) * Bit(b-1, 1))
        + 4 * (Bit(a-1, 2) * Bit(b-1, 2)) + 8 * (Bit(a-1, 3) * Bit(b-1, 3))])])
\* the table of a bitwise operation on bytes, from its table on nibbles
ByteTable(T) ==
    AsTuple([a \in 1..256 |-> AsTuple([b \in 1..256 |->
        16 * T[((a-1) \div 16) + 1][((b-1) \div 16) + 1]
        + T[((a-1) % 16) + 1][((b-1) % 16) + 1]])])
ByteXor == ByteTable(NibbleXor)
ByteAnd == ByteTable(NibbleAnd)
Xor16(a, b) ==
    256 * ByteXor[(a \div 256) + 1][(b \div 256) + 1] + ByteXor[(a % 256) + 1][(b % 256) + 1]
And16(a, b) ==
    256 * ByteAnd[(a \div 256) + 1][(b \div 256) + 1] + ByteAnd[(a % 256) + 1][(b % 256) + 1]
Xor32(x, y) == <<Xor16(x[1], y[1]), Xor16(x[2], y[2])>>
And32(x, y) == <<And16(x[1], y[1]), And16(x[2], y[2])>>
\* rotate left by n bits, 0 < n < 16
Rotl(x, n) ==
    <<((x[1] * (2^n)) % 65536) + (x[2] \div (2^(16-n))),
      ((x[2] * (2^n)) % 65536) + (x[1] \div (2^(16-n)))>>
\* the sum of five words modulo 2^32
Add5(a, b, c, d, e) ==
    LET lo == a[2] + b[2] + c[2] + d[2] + e[2]
        hi == a[1] + b[1] + c[1] + d[1] + e[1] + (lo \div 65536)
    IN <<hi % 65536, lo % 65536>>
Add32(a, b) == Add5(a, b, <<0, 0>>, <<0, 0>>, <<0, 0>>)

\* the message schedule: W[t] = rotl1(W[t-3] ^ W[t-8] ^ W[t-14] ^ W[t-16])
NextW(w) ==
    LET n == Len(w) + 1
    IN Append(w, Rotl(Xor32(Xor32(w[n-3], w[n-8]), Xor32(w[n-14], w[n-16])), 1))
\* k more words of the schedule (the first half is computed before the second)
RECURSIVE Schedule(_, _)
Schedule(w, k) ==
    IF k = 0 THEN w
    ELSE IF k = 1 THEN NextW(w)
    ELSE LET first == Schedule(w, k \div 2)
         IN IF Len(first) = Len(w) + (k \div 2) THEN Schedule(first, k - (k \div 2)) ELSE <<>>
\* the round constants 5A827999, 6ED9EBA1, 8F1BBCDC, CA62C1D6
K(t) ==
    IF t <= 20 THEN <<23170, 31129>>
    ELSE IF t <= 40 THEN <<28377, 60321>>
    ELSE IF t <= 60 THEN <<36635, 48348>>
    ELSE <<51810, 49622>>
\* the round functions: Ch, Parity, Maj, Parity
Ft(t, b, c, d) ==
    IF t <= 20 THEN Xor32(d, And32(b, Xor32(c, d)))
    ELSE IF t <= 40 THEN Xor32(b, Xor32(c, d))
    ELSE IF t <= 60 THEN Xor32(And32(b, c), And32(d, Xor32(b, c)))
    ELSE Xor32(b, Xor32(c, d))
\* one round; the rotation by 30 bits is one by 16 (the halves swapped) and
\* one by 14
Round(s, w, t) ==
    <<Add5(Rotl(s[1], 5), Ft(t, s[2], s[3], s[4]), s[5], K(t), w[t]),
      s[1], Rotl(<<s[2][2], s[2][1]>>, 14), s[3], s[4]>>
\* rounds lo..hi (the first half is computed before the second)
RECURSIVE Rounds(_, _, _, _)
Rounds(s, w, lo, hi) ==
    IF lo = hi THEN Round(s, w, lo)
    ELSE LET mid == (lo + hi) \div 2
             first == Rounds(s, w, lo, mid)
         IN IF Len(first) = 5 THEN Rounds(first, w, mid + 1, hi) ELSE <<>>
\* one 64-byte block
Compress(h, block) ==
    LET w == Schedule(AsTuple([i \in 1..16 |->
                 <<block[4*i-3] * 256 + block[4*i-2], block[4*i-1] * 256 + block[4*i]>>]), 64)
        s == Rounds(h, w, 1, 80)
    IN <<Add32(h[1], s[1]), Add32(h[2], s[2]), Add32(h[3], s[3]),
         Add32(h[4], s[4]), Add32(h[5], s[5])>>
\* the initial hash value 67452301 EFCDAB89 98BADCFE 10325476 C3D2E1F0
Sha1Init ==
    <<<<26437, 8961>>, <<61389, 43913>>, <<39098, 56574>>, <<4146, 21622>>, <<50130, 57840>>>>
Zeros(n) == AsTuple([i \in 1..n |-> 0])
\* the message, a 1 bit, zeros up to 56 modulo 64, and the length in bits
Sha1Pad(msg) ==
    LET bits == Len(msg) * 8
    IN msg \o <<128>> \o Zeros((119 - (Len(msg) % 64)) % 64)
       \o <<0, 0, 0, 0, (bits \div 16777216) % 256, (bits \div 65536) % 256,
            (bits \div 256) % 256, bits % 256>>
RECURSIVE Sha1Blocks(_, _)
Sha1Blocks(h, m) ==
    IF Len(m) = 0 THEN h
    ELSE LET next == Compress(h, SubSeq(m, 1, 64))
         IN IF Len(next) = 5 THEN Sha1Blocks(next, SubSeq(m, 65, Len(m))) ELSE <<>>
WordBytes(w) == <<w[1] \div 256, w[1] % 256, w[2] \div 256, w[2] % 256>>
DigestBytes(h) ==
    WordBytes(h[1]) \o WordBytes(h[2]) \o WordBytes(h[3]) \o WordBytes(h[4]) \o WordBytes(h[5])
\* hashlib.sha1(msg).digest()
Sha1(msg) == DigestBytes(Sha1Blocks(Sha1Init, Sha1Pad(msg)))

\* the key padded to the block size and xored with the byte c
HmacPad(key, c) == AsTuple([i \in 1..64 |-> IF i <= Len(key) THEN Xor16(key[i], c) ELSE c])
\* hmac.new(key, msg, digestmod="sha1").digest(): a key longer than a block
\* is hashed first; ipad is 0x36 and opad 0x5c
HmacSha1(key, msg) ==
    LET k == IF Len(key) > 64 THEN Sha1(key) ELSE key
    IN IF Len(k) <= 64
       THEN Sha1(HmacPad(k, 92) \o Sha1(HmacPad(k, 54) \o msg))
       ELSE <<>>
\* the two lowercase hexadecimal digits of a byte
HexChar(n) == IF n < 10 THEN 48 + n ELSE 87 + n
RECURSIVE HexRange(_, _, _)
HexRange(bs, lo, hi) ==
    IF lo > hi THEN <<>>
    ELSE IF lo = hi THEN <<HexChar(bs[lo] \div 16), HexChar(bs[lo] % 16)>>
    ELSE LET mid == (lo + hi) \div 2
         IN HexRange(bs, lo, mid) \o HexRange(bs, mid + 1, hi)
\* .hexdigest()
HexDigest(bs) == HexRange(bs, 1, Len(bs))

(***************************************************************************)
(* _valid_signature                                                        *)
(***************************************************************************)
\* the text "sha1="
Sha1Prefix == <<115, 104, 97, 49, 61>>

\* a faulty to_str, which encodes nothing
to_str_identity(s) == s

\* to_str: a str becomes its UTF-8 bytes, anything else is returned as it is
to_str(s) == IF s.t = "str" THEN Bytes(Utf8(s.v)) ELSE s

\* hmac.new(key, msg, digestmod="sha1").hexdigest(): key and msg must be
\* bytes, anything else is a TypeError
hmac_hexdigest(key, msg) ==
    IF key.t # "bytes" \/ msg.t # "bytes" THEN Raise("TypeError")
    ELSE Str(HexDigest(HmacSha1(key.v, msg.v)))

\* 'sha1=' + hexdigest
Concat(prefix, x) == IF IsRaise(x) THEN x ELSE Str(prefix \o x.v)

\* hmac.compare_digest(a, b): equality of two byte strings (or of two ASCII
\* texts); a TypeError for any other pair of types
compare_digest(a, b) ==
    IF IsRaise(a) THEN a
    ELSE IF a.t = "bytes" /\ b.t = "bytes" THEN Bool(a.v = b.v)
    ELSE IF a.t = "str" /\ b.t = "str" /\ (\A i \in 1..Len(a.v) : a.v[i] < 128)
            /\ (\A i \in 1..Len(b.v) : b.v[i] < 128)
         THEN Bool(a.v = b.v)
         ELSE Raise("TypeError")

\* Lines 212-227.
_valid_signature(gh_signature_, body, secret_) ==
    compare_digest(to_str(Concat(Sha1Prefix, hmac_hexdigest(to_str(secret_), to_str(body)))),
                   to_str(gh_signature_))

(***************************************************************************)
(* Direct calls of _valid_signature, as test_valid_signature__* make them. *)
(* The expected signatures are the known answers of Python's hmac module.  *)
(***************************************************************************)
\* the text "my-secret" (code points)
SecretAsciiText == <<109, 121, 45, 115, 101, 99, 114, 101, 116>>
\* the text "clé-secrète" (code points)
SecretAccentText == <<99, 108, 233, 45, 115, 101, 99, 114, 232, 116, 101>>

\* "adsf", the signature test_valid_signature__false presents
SigAdsf == <<97, 100, 115, 102>>
\* "sha1=bogus"
SigBogus == <<115, 104, 97, 49, 61, 98, 111, 103, 117, 115>>
\* "sha1=" followed by a letter that is not ASCII
SigAccent == <<115, 104, 97, 49, 61, 233>>

\* how many substitute characters are tried at each position of a signature
\* or a body
MaxDelta == 1

\* a printable ASCII character other than c
Substitute(c, delta) == 32 + (((c - 32) + delta) % 95)
\* s with the character at position i replaced
Mutate(s, i, delta) == [s EXCEPT ![i] = Substitute(s[i], delta)]

\* (secret, body) pairs and the signature hmac gives each
KnownAnswers ==
    {
      \* the body '{"rock": "on"}'
      [secret |-> SecretAsciiText,
       body |-> <<123, 34, 114, 111, 99, 107, 34, 58, 32, 34, 111, 110, 34, 125>>,
       signature |-> <<115, 104, 97, 49, 61, 48, 52, 50, 102, 57, 99, 51, 49, 54, 100, 99, 53,
                      97, 57, 54, 55, 100, 97, 54, 101, 101, 100, 57, 53, 102, 99, 54, 55, 55,
                      55, 54, 52, 50, 51, 55, 50, 98, 52, 98, 99>>],
      \* the body ''
      [secret |-> SecretAsciiText,
       body |-> <<>>,
       signature |-> <<115, 104, 97, 49, 61, 48, 54, 97, 98, 56, 102, 53, 52, 49, 49, 48, 48,
                      50, 100, 100, 52, 53, 53, 99, 100, 100, 50, 100, 51, 48, 55, 102, 54, 56,
                      49, 52, 55, 51, 57, 54, 98, 49, 102, 102, 49>>],
      \* the body 'asdf'
      [secret |-> SecretAccentText,
       body |-> <<97, 115, 100, 102>>,
       signature |-> <<115, 104, 97, 49, 61, 52, 55, 100, 55, 101, 99, 48, 55, 100, 48, 48, 98,
                      54, 97, 101, 55, 102, 56, 51, 57, 53, 54, 99, 100, 51, 98, 52, 55, 49,
                      57, 48, 49, 98, 48, 55, 57, 99, 49, 54, 56>>] }

\* presented signatures that are no signature of the body at all
Malformed(sig) ==
    { <<>>, Sha1Prefix, SigBogus, SigAdsf, SigAccent,
      SubSeq(sig, Len(Sha1Prefix) + 1, Len(sig)),
      SubSeq(sig, 1, Len(sig) - 1),
      sig \o <<48>> }

\* the three ways the arguments arrive: all text (test_valid_signature__*),
\* all bytes, or as commit_email passes them (text, bytes, text)
Forms == {"str", "bytes", "handler"}
AsGiven(form, text, inHandler) ==
    IF form = "str" \/ (form = "handler" /\ inHandler = "str") THEN Str(text)
    ELSE Bytes(Utf8(text))

SigCall(form, kind, k, sig, body) ==
    [fn |-> "_valid_signature", kind |-> kind,
     gh_signature |-> AsGiven(form, sig, "str"),
     body |-> AsGiven(form, body, "bytes"),
     secret |-> AsGiven(form, k.secret, "str")]

SigCalls ==
    UNION { UNION { { SigCall(form, "valid", k, k.signature, k.body) }
                    \cup { SigCall(form, "signature mutated", k, Mutate(k.signature, i, d), k.body) :
                             i \in 1..Len(k.signature), d \in 1..MaxDelta }
                    \cup { SigCall(form, "body mutated", k, k.signature, Mutate(k.body, i, d)) :
                             i \in 1..Len(k.body), d \in 1..MaxDelta }
                    \cup { SigCall(form, "malformed", k, s, k.body) : s \in Malformed(k.signature) }
                  : form \in Forms }
          : k \in KnownAnswers }

(***************************************************************************)
(* The texts of the program and the values the model feeds it.             *)
(***************************************************************************)
\* the text 'push'
PushText == <<112, 117, 115, 104>>
\* the text 'ping'
PingText == <<112, 105, 110, 103>>
\* the text 'Merge pull request'
MergeMarker == <<77, 101, 114, 103, 101, 32, 112, 117, 108, 108, 32, 114, 101, 113, 117, 101,
    115, 116>>
\* the text 'Unavailable'
Unavailable == <<85, 110, 97, 118, 97, 105, 108, 97, 98, 108, 101>>
\* the text '[Chapel Merge] '
SubjectPrefix == <<91, 67, 104, 97, 112, 101, 108, 32, 77, 101, 114, 103, 101, 93, 32>>
\* the text 'smtp.mailgun.org'
smtp_server == <<115, 109, 116, 112, 46, 109, 97, 105, 108, 103, 117, 110, 46, 111, 114, 103>>
\* the text of one line feed
Newline == <<10>>
\* the text 'nope'
Nope == <<110, 111, 112, 101>>
\* the text 'yep'
Yep == <<121, 101, 112>>

\* the body template of _send_email: literal text, each piece followed by
\* the field of msg_info that is formatted after it
BodyTemplate == <<
    [text |-> <<66, 114, 97, 110, 99, 104, 58, 32>>,
     field |-> "branch"],
    [text |-> <<10, 32, 32, 32, 32, 82, 101, 118, 105, 115, 105, 111, 110, 58, 32>>,
     field |-> "revision"],
    [text |-> <<10, 32, 32, 32, 32, 65, 117, 116, 104, 111, 114, 58, 32>>,
     field |-> "pusher"],
    [text |-> <<10, 32, 32, 32, 32, 76, 105, 110, 107, 58, 32>>,
     field |-> "pr_url"],
    [text |-> <<10, 32, 32, 32, 32, 76, 111, 103, 32, 77, 101, 115, 115, 97, 103, 101, 58, 10, 10, 32, 32, 32, 32>>,
     field |-> "message"],
    [text |-> <<10, 10, 32, 32, 32, 32, 77, 111, 100, 105, 102, 105, 101, 100, 32, 70, 105, 108, 101, 115, 58, 10, 32, 32, 32, 32>>,
     field |-> "changed_files"],
    [text |-> <<10, 10, 32, 32, 32, 32, 67, 111, 109, 112, 97, 114, 101, 58, 32>>,
     field |-> "compare_url"],
    [text |-> <<10, 32, 32, 32, 32>>,
     field |-> ""] >>

\* values of the configuration variables and of the lookup
\* the text 'noreply@fake.fake'
SenderAddress == <<110, 111, 114, 101, 112, 108, 121, 64, 102, 97, 107, 101, 46, 102, 97, 107,
    101>>
\* the text 'list@fake.fake'
RecipientAddress == <<108, 105, 115, 116, 64, 102, 97, 107, 101, 46, 102, 97, 107, 101>>
\* the text 'a@fake.fake,b@fake.fake'
CcAddresses == <<97, 64, 102, 97, 107, 101, 46, 102, 97, 107, 101, 44, 98, 64, 102, 97, 107,
    101, 46, 102, 97, 107, 101>>
\* the text 'reply-to-me@fake.fake'
ReplyToAddress == <<114, 101, 112, 108, 121, 45, 116, 111, 45, 109, 101, 64, 102, 97, 107, 101,
    46, 102, 97, 107, 101>>
\* the text 'my-super-secret'
ApprovedValue == <<109, 121, 45, 115, 117, 112, 101, 114, 45, 115, 101, 99, 114, 101, 116>>
\* the text 'whatevs'
Whatevs == <<119, 104, 97, 116, 101, 118, 115>>
\* the text 'postmaster@fake.fake'
MailgunLogin == <<112, 111, 115, 116, 109, 97, 115, 116, 101, 114, 64, 102, 97, 107, 101, 46,
    102, 97, 107, 101>>
\* the text 'pw'
MailgunPassword == <<112, 119>>
\* the text 'https://github.com/testing/test/pull/1'
PullRequestUrl == <<104, 116, 116, 112, 115, 58, 47, 47, 103, 105, 116, 104, 117, 98, 46, 99,
    111, 109, 47, 116, 101, 115, 116, 105, 110, 103, 47, 116, 101, 115, 116, 47, 112, 117, 108,
    108, 47, 49>>

(***************************************************************************)
(* Request bodies: the raw body, what get_json() makes of it (parsing is   *)
(* Flask's), and the signature hmac gives the raw body under the secret    *)
(* "my-secret".                                                            *)
(***************************************************************************)
\* the push of a merge commit (the body test_test_send_mail posts):
\*   {"ref": "the/master", "deleted": false, "compare": "http://the-url.it", "repository": {"
\*   full_name": "testing/test"}, "pusher": {"name": "the-tester", "email": "the@example.com"
\*   }, "after": "some-sha", "head_commit": {"id": "some-sha1", "message": "Merge pull reques
\*   t: A lovely\n\ncommit message.", "added": [], "removed": ["a.out", "gen"], "modified": [
\*   "README.md", "README", "LICENSE"]}}
Body_Merge ==
    [data |-> <<123, 34, 114, 101, 102, 34, 58, 32, 34, 116, 104, 101, 47, 109, 97, 115, 116,
               101, 114, 34, 44, 32, 34, 100, 101, 108, 101, 116, 101, 100, 34, 58, 32, 102,
               97, 108, 115, 101, 44, 32, 34, 99, 111, 109, 112, 97, 114, 101, 34, 58, 32, 34,
               104, 116, 116, 112, 58, 47, 47, 116, 104, 101, 45, 117, 114, 108, 46, 105, 116,
               34, 44, 32, 34, 114, 101, 112, 111, 115, 105, 116, 111, 114, 121, 34, 58, 32,
               123, 34, 102, 117, 108, 108, 95, 110, 97, 109, 101, 34, 58, 32, 34, 116, 101,
               115, 116, 105, 110, 103, 47, 116, 101, 115, 116, 34, 125, 44, 32, 34, 112, 117,
               115, 104, 101, 114, 34, 58, 32, 123, 34, 110, 97, 109, 101, 34, 58, 32, 34, 116,
               104, 101, 45, 116, 101, 115, 116, 101, 114, 34, 44, 32, 34, 101, 109, 97, 105,
               108, 34, 58, 32, 34, 116, 104, 101, 64, 101, 120, 97, 109, 112, 108, 101, 46,
               99, 111, 109, 34, 125, 44, 32, 34, 97, 102, 116, 101, 114, 34, 58, 32, 34, 115,
               111, 109, 101, 45, 115, 104, 97, 34, 44, 32, 34, 104, 101, 97, 100, 95, 99, 111,
               109, 109, 105, 116, 34, 58, 32, 123, 34, 105, 100, 34, 58, 32, 34, 115, 111,
               109, 101, 45, 115, 104, 97, 49, 34, 44, 32, 34, 109, 101, 115, 115, 97, 103,
               101, 34, 58, 32, 34, 77, 101, 114, 103, 101, 32, 112, 117, 108, 108, 32, 114,
               101, 113, 117, 101, 115, 116, 58, 32, 65, 32, 108, 111, 118, 101, 108, 121, 92,
               110, 92, 110, 99, 111, 109, 109, 105, 116, 32, 109, 101, 115, 115, 97, 103, 101,
               46, 34, 44, 32, 34, 97, 100, 100, 101, 100, 34, 58, 32, 91, 93, 44, 32, 34, 114,
               101, 109, 111, 118, 101, 100, 34, 58, 32, 91, 34, 97, 46, 111, 117, 116, 34, 44,
               32, 34, 103, 101, 110, 34, 93, 44, 32, 34, 109, 111, 100, 105, 102, 105, 101,
               100, 34, 58, 32, 91, 34, 82, 69, 65, 68, 77, 69, 46, 109, 100, 34, 44, 32, 34,
               82, 69, 65, 68, 77, 69, 34, 44, 32, 34, 76, 73, 67, 69, 78, 83, 69, 34, 93, 125,
               125>>,
     json |-> Dict([
                          ref |-> Str(<<116, 104, 101, 47, 109, 97, 115, 116, 101, 114>>),
                          deleted |-> Bool(FALSE),
                          compare |-> Str(<<104, 116, 116, 112, 58, 47, 47, 116, 104, 101, 45, 117, 114, 108, 46, 105, 116>>),
                          repository |-> Dict([
                              full_name |-> Str(<<116, 101, 115, 116, 105, 110, 103, 47, 116, 101, 115, 116>>)]),
                          pusher |-> Dict([
                              name |-> Str(<<116, 104, 101, 45, 116, 101, 115, 116, 101, 114>>),
                              email |-> Str(<<116, 104, 101, 64, 101, 120, 97, 109, 112, 108, 101, 46, 99, 111, 109>>)]),
                          after |-> Str(<<115, 111, 109, 101, 45, 115, 104, 97>>),
                          head_commit |-> Dict([
                              id |-> Str(<<115, 111, 109, 101, 45, 115, 104, 97, 49>>),
                              message |-> Str(<<77, 101, 114, 103, 101, 32, 112, 117, 108, 108, 32, 114, 101, 113, 117, 101, 115, 116, 58, 32, 65, 32, 108, 111, 118, 101, 108, 121, 10, 10, 99, 111, 109, 109, 105, 116, 32, 109, 101, 115, 115, 97, 103, 101, 46>>),
                              added |-> List(<<>>),
                              removed |-> List(<<Str(<<97, 46, 111, 117, 116>>), Str(<<103, 101, 110>>)>>),
                              modified |-> List(<<Str(<<82, 69, 65, 68, 77, 69, 46, 109, 100>>), Str(<<82, 69, 65, 68, 77, 69>>), Str(<<76, 73, 67, 69, 78, 83, 69>>)>>)])]),
     signature |-> <<115, 104, 97, 49, 61, 52, 50, 99, 102, 101, 50, 48, 98, 49, 102, 102, 54,
                    101, 101, 48, 98, 55, 49, 99, 54, 99, 98, 102, 53, 56, 50, 50, 54, 100, 57,
                    52, 98, 99, 97, 53, 50, 52, 49, 97, 55>>]
\* the same with the deleted flag set:
\*   {"ref": "the/master", "deleted": true, "compare": "http://the-url.it", "repository": {"f
\*   ull_name": "testing/test"}, "pusher": {"name": "the-tester", "email": "the@example.com"}
\*   , "after": "some-sha", "head_commit": {"id": "some-sha1", "message": "Merge pull request
\*   : A lovely\n\ncommit message.", "added": [], "removed": ["a.out", "gen"], "modified": ["
\*   README.md", "README", "LICENSE"]}}
Body_MergeDeleted ==
    [data |-> <<123, 34, 114, 101, 102, 34, 58, 32, 34, 116, 104, 101, 47, 109, 97, 115, 116,
               101, 114, 34, 44, 32, 34, 100, 101, 108, 101, 116, 101, 100, 34, 58, 32, 116,
               114, 117, 101, 44, 32, 34, 99, 111, 109, 112, 97, 114, 101, 34, 58, 32, 34, 104,
               116, 116, 112, 58, 47, 47, 116, 104, 101, 45, 117, 114, 108, 46, 105, 116, 34,
               44, 32, 34, 114, 101, 112, 111, 115, 105, 116, 111, 114, 121, 34, 58, 32, 123,
               34, 102, 117, 108, 108, 95, 110, 97, 109, 101, 34, 58, 32, 34, 116, 101, 115,
               116, 105, 110, 103, 47, 116, 101, 115, 116, 34, 125, 44, 32, 34, 112, 117, 115,
               104, 101, 114, 34, 58, 32, 123, 34, 110, 97, 109, 101, 34, 58, 32, 34, 116, 104,
               101, 45, 116, 101, 115, 116, 101, 114, 34, 44, 32, 34, 101, 109, 97, 105, 108,
               34, 58, 32, 34, 116, 104, 101, 64, 101, 120, 97, 109, 112, 108, 101, 46, 99,
               111, 109, 34, 125, 44, 32, 34, 97, 102, 116, 101, 114, 34, 58, 32, 34, 115, 111,
               109, 101, 45, 115, 104, 97, 34, 44, 32, 34, 104, 101, 97, 100, 95, 99, 111, 109,
               109, 105, 116, 34, 58, 32, 123, 34, 105, 100, 34, 58, 32, 34, 115, 111, 109,
               101, 45, 115, 104, 97, 49, 34, 44, 32, 34, 109, 101, 115, 115, 97, 103, 101, 34,
               58, 32, 34, 77, 101, 114, 103, 101, 32, 112, 117, 108, 108, 32, 114, 101, 113,
               117, 101, 115, 116, 58, 32, 65, 32, 108, 111, 118, 101, 108, 121, 92, 110, 92,
               110, 99, 111, 109, 109, 105, 116, 32, 109, 101, 115, 115, 97, 103, 101, 46, 34,
               44, 32, 34, 97, 100, 100, 101, 100, 34, 58, 32, 91, 93, 44, 32, 34, 114, 101,
               109, 111, 118, 101, 100, 34, 58, 32, 91, 34, 97, 46, 111, 117, 116, 34, 44, 32,
               34, 103, 101, 110, 34, 93, 44, 32, 34, 109, 111, 100, 105, 102, 105, 101, 100,
               34, 58, 32, 91, 34, 82, 69, 65, 68, 77, 69, 46, 109, 100, 34, 44, 32, 34, 82,
               69, 65, 68, 77, 69, 34, 44, 32, 34, 76, 73, 67, 69, 78, 83, 69, 34, 93, 125,
               125>>,
     json |-> Dict([
                          ref |-> Str(<<116, 104, 101, 47, 109, 97, 115, 116, 101, 114>>),
                          deleted |-> Bool(TRUE),
                          compare |-> Str(<<104, 116, 116, 112, 58, 47, 47, 116, 104, 101, 45, 117, 114, 108, 46, 105, 116>>),
                          repository |-> Dict([
                              full_name |-> Str(<<116, 101, 115, 116, 105, 110, 103, 47, 116, 101, 115, 116>>)]),
                          pusher |-> Dict([
                              name |-> Str(<<116, 104, 101, 45, 116, 101, 115, 116, 101, 114>>),
                              email |-> Str(<<116, 104, 101, 64, 101, 120, 97, 109, 112, 108, 101, 46, 99, 111, 109>>)]),
                          after |-> Str(<<115, 111, 109, 101, 45, 115, 104, 97>>),
                          head_commit |-> Dict([
                              id |-> Str(<<115, 111, 109, 101, 45, 115, 104, 97, 49>>),
                              message |-> Str(<<77, 101, 114, 103, 101, 32, 112, 117, 108, 108, 32, 114, 101, 113, 117, 101, 115, 116, 58, 32, 65, 32, 108, 111, 118, 101, 108, 121, 10, 10, 99, 111, 109, 109, 105, 116, 32, 109, 101, 115, 115, 97, 103, 101, 46>>),
                              added |-> List(<<>>),
                              removed |-> List(<<Str(<<97, 46, 111, 117, 116>>), Str(<<103, 101, 110>>)>>),
                              modified |-> List(<<Str(<<82, 69, 65, 68, 77, 69, 46, 109, 100>>), Str(<<82, 69, 65, 68, 77, 69>>), Str(<<76, 73, 67, 69, 78, 83, 69>>)>>)])]),
     signature |-> <<115, 104, 97, 49, 61, 99, 98, 56, 53, 56, 50, 102, 49, 52, 53, 97, 100,
                    101, 99, 51, 51, 101, 101, 98, 100, 99, 100, 51, 50, 56, 56, 55, 52, 54,
                    52, 99, 49, 52, 102, 101, 48, 55, 54, 101, 50>>]
\* the push of a commit that merges no pull request:
\*   {"ref": "the/master", "deleted": false, "compare": "http://the-url.it", "repository": {"
\*   full_name": "testing/test"}, "pusher": {"name": "the-tester", "email": "the@example.com"
\*   }, "after": "some-sha", "head_commit": {"id": "some-sha1", "message": "Fix a typo", "add
\*   ed": [], "removed": ["a.out", "gen"], "modified": ["README.md", "README", "LICENSE"]}}
Body_NoMerge ==
    [data |-> <<123, 34, 114, 101, 102, 34, 58, 32, 34, 116, 104, 101, 47, 109, 97, 115, 116,
               101, 114, 34, 44, 32, 34, 100, 101, 108, 101, 116, 101, 100, 34, 58, 32, 102,
               97, 108, 115, 101, 44, 32, 34, 99, 111, 109, 112, 97, 114, 101, 34, 58, 32, 34,
               104, 116, 116, 112, 58, 47, 47, 116, 104, 101, 45, 117, 114, 108, 46, 105, 116,
               34, 44, 32, 34, 114, 101, 112, 111, 115, 105, 116, 111, 114, 121, 34, 58, 32,
               123, 34, 102, 117, 108, 108, 95, 110, 97, 109, 101, 34, 58, 32, 34, 116, 101,
               115, 116, 105, 110, 103, 47, 116, 101, 115, 116, 34, 125, 44, 32, 34, 112, 117,
               115, 104, 101, 114, 34, 58, 32, 123, 34, 110, 97, 109, 101, 34, 58, 32, 34, 116,
               104, 101, 45, 116, 101, 115, 116, 101, 114, 34, 44, 32, 34, 101, 109, 97, 105,
               108, 34, 58, 32, 34, 116, 104, 101, 64, 101, 120, 97, 109, 112, 108, 101, 46,
               99, 111, 109, 34, 125, 44, 32, 34, 97, 102, 116, 101, 114, 34, 58, 32, 34, 115,
               111, 109, 101, 45, 115, 104, 97, 34, 44, 32, 34, 104, 101, 97, 100, 95, 99, 111,
               109, 109, 105, 116, 34, 58, 32, 123, 34, 105, 100, 34, 58, 32, 34, 115, 111,
               109, 101, 45, 115, 104, 97, 49, 34, 44, 32, 34, 109, 101, 115, 115, 97, 103,
               101, 34, 58, 32, 34, 70, 105, 120, 32, 97, 32, 116, 121, 112, 111, 34, 44, 32,
               34, 97, 100, 100, 101, 100, 34, 58, 32, 91, 93, 44, 32, 34, 114, 101, 109, 111,
               118, 101, 100, 34, 58, 32, 91, 34, 97, 46, 111, 117, 116, 34, 44, 32, 34, 103,
               101, 110, 34, 93, 44, 32, 34, 109, 111, 100, 105, 102, 105, 101, 100, 34, 58,
               32, 91, 34, 82, 69, 65, 68, 77, 69, 46, 109, 100, 34, 44, 32, 34, 82, 69, 65,
               68, 77, 69, 34, 44, 32, 34, 76, 73, 67, 69, 78, 83, 69, 34, 93, 125, 125>>,
     json |-> Dict([
                          ref |-> Str(<<116, 104, 101, 47, 109, 97, 115, 116, 101, 114>>),
                          deleted |-> Bool(FALSE),
                          compare |-> Str(<<104, 116, 116, 112, 58, 47, 47, 116, 104, 101, 45, 117, 114, 108, 46, 105, 116>>),
                          repository |-> Dict([
                              full_name |-> Str(<<116, 101, 115, 116, 105, 110, 103, 47, 116, 101, 115, 116>>)]),
                          pusher |-> Dict([
                              name |-> Str(<<116, 104, 101, 45, 116, 101, 115, 116, 101, 114>>),
                              email |-> Str(<<116, 104, 101, 64, 101, 120, 97, 109, 112, 108, 101, 46, 99, 111, 109>>)]),
                          after |-> Str(<<115, 111, 109, 101, 45, 115, 104, 97>>),
                          head_commit |-> Dict([
                              id |-> Str(<<115, 111, 109, 101, 45, 115, 104, 97, 49>>),
                              message |-> Str(<<70, 105, 120, 32, 97, 32, 116, 121, 112, 111>>),
                              added |-> List(<<>>),
                              removed |-> List(<<Str(<<97, 46, 111, 117, 116>>), Str(<<103, 101, 110>>)>>),
                              modified |-> List(<<Str(<<82, 69, 65, 68, 77, 69, 46, 109, 100>>), Str(<<82, 69, 65, 68, 77, 69>>), Str(<<76, 73, 67, 69, 78, 83, 69>>)>>)])]),
     signature |-> <<115, 104, 97, 49, 61, 97, 49, 56, 56, 48, 98, 49, 101, 49, 100, 97, 54,
                    100, 55, 99, 53, 53, 51, 51, 99, 51, 97, 55, 102, 48, 53, 97, 101, 57, 52,
                    54, 102, 56, 101, 100, 50, 100, 102, 55, 56>>]
\* the push that deletes a branch: it has no head commit:
\*   {"ref": "the/branch", "deleted": true, "compare": "http://the-url.it", "repository": {"f
\*   ull_name": "testing/test"}, "pusher": {"name": "the-tester", "email": "the@example.com"}
\*   , "after": "0000000", "head_commit": null}
Body_BranchDeletion ==
    [data |-> <<123, 34, 114, 101, 102, 34, 58, 32, 34, 116, 104, 101, 47, 98, 114, 97, 110,
               99, 104, 34, 44, 32, 34, 100, 101, 108, 101, 116, 101, 100, 34, 58, 32, 116,
               114, 117, 101, 44, 32, 34, 99, 111, 109, 112, 97, 114, 101, 34, 58, 32, 34, 104,
               116, 116, 112, 58, 47, 47, 116, 104, 101, 45, 117, 114, 108, 46, 105, 116, 34,
               44, 32, 34, 114, 101, 112, 111, 115, 105, 116, 111, 114, 121, 34, 58, 32, 123,
               34, 102, 117, 108, 108, 95, 110, 97, 109, 101, 34, 58, 32, 34, 116, 101, 115,
               116, 105, 110, 103, 47, 116, 101, 115, 116, 34, 125, 44, 32, 34, 112, 117, 115,
               104, 101, 114, 34, 58, 32, 123, 34, 110, 97, 109, 101, 34, 58, 32, 34, 116, 104,
               101, 45, 116, 101, 115, 116, 101, 114, 34, 44, 32, 34, 101, 109, 97, 105, 108,
               34, 58, 32, 34, 116, 104, 101, 64, 101, 120, 97, 109, 112, 108, 101, 46, 99,
               111, 109, 34, 125, 44, 32, 34, 97, 102, 116, 101, 114, 34, 58, 32, 34, 48, 48,
               48, 48, 48, 48, 48, 34, 44, 32, 34, 104, 101, 97, 100, 95, 99, 111, 109, 109,
               105, 116, 34, 58, 32, 110, 117, 108, 108, 125>>,
     json |-> Dict([
                          ref |-> Str(<<116, 104, 101, 47, 98, 114, 97, 110, 99, 104>>),
                          deleted |-> Bool(TRUE),
                          compare |-> Str(<<104, 116, 116, 112, 58, 47, 47, 116, 104, 101, 45, 117, 114, 108, 46, 105, 116>>),
                          repository |-> Dict([
                              full_name |-> Str(<<116, 101, 115, 116, 105, 110, 103, 47, 116, 101, 115, 116>>)]),
                          pusher |-> Dict([
                              name |-> Str(<<116, 104, 101, 45, 116, 101, 115, 116, 101, 114>>),
                              email |-> Str(<<116, 104, 101, 64, 101, 120, 97, 109, 112, 108, 101, 46, 99, 111, 109>>)]),
                          after |-> Str(<<48, 48, 48, 48, 48, 48, 48>>),
                          head_commit |-> PyNone]),
     signature |-> <<115, 104, 97, 49, 61, 48, 54, 101, 48, 101, 98, 98, 55, 55, 55, 54, 97,
                    56, 55, 56, 102, 51, 99, 55, 50, 98, 49, 51, 52, 51, 97, 50, 49, 54, 54,
                    55, 51, 97, 56, 100, 52, 101, 55, 51, 51>>]
\* the body test_deleted_branch posts:
\*   {"head_commit": {"message": "Test"}, "deleted": true}
Body_TestDeleted ==
    [data |-> <<123, 34, 104, 101, 97, 100, 95, 99, 111, 109, 109, 105, 116, 34, 58, 32, 123,
               34, 109, 101, 115, 115, 97, 103, 101, 34, 58, 32, 34, 84, 101, 115, 116, 34,
               125, 44, 32, 34, 100, 101, 108, 101, 116, 101, 100, 34, 58, 32, 116, 114, 117,
               101, 125>>,
     json |-> Dict([
                          head_commit |-> Dict([
                              message |-> Str(<<84, 101, 115, 116>>)]),
                          deleted |-> Bool(TRUE)]),
     signature |-> <<115, 104, 97, 49, 61, 57, 54, 53, 48, 55, 48, 52, 49, 98, 48, 97, 99, 48,
                    51, 53, 102, 99, 99, 101, 51, 49, 53, 51, 102, 48, 56, 97, 57, 52, 100, 57,
                    98, 98, 102, 55, 52, 97, 102, 51, 101>>]
\* an object without any field:
\*   {}
Body_EmptyObject ==
    [data |-> <<123, 125>>,
     json |-> Dict(<<>>),
     signature |-> <<115, 104, 97, 49, 61, 100, 97, 49, 51, 102, 56, 102, 101, 51, 102, 49, 51,
                    50, 48, 102, 48, 50, 51, 97, 48, 56, 54, 51, 102, 100, 48, 48, 53, 98, 101,
                    49, 55, 53, 100, 97, 102, 52, 50, 97, 101>>]
\* the merge push without pusher.email:
\*   {"ref": "the/master", "deleted": false, "compare": "http://the-url.it", "repository": {"
\*   full_name": "testing/test"}, "pusher": {"name": "the-tester"}, "after": "some-sha", "hea
\*   d_commit": {"id": "some-sha1", "message": "Merge pull request: A lovely\n\ncommit messag
\*   e.", "added": [], "removed": ["a.out", "gen"], "modified": ["README.md", "README", "LICE
\*   NSE"]}}
Body_NoPusherEmail ==
    [data |-> <<123, 34, 114, 101, 102, 34, 58, 32, 34, 116, 104, 101, 47, 109, 97, 115, 116,
               101, 114, 34, 44, 32, 34, 100, 101, 108, 101, 116, 101, 100, 34, 58, 32, 102,
               97, 108, 115, 101, 44, 32, 34, 99, 111, 109, 112, 97, 114, 101, 34, 58, 32, 34,
               104, 116, 116, 112, 58, 47, 47, 116, 104, 101, 45, 117, 114, 108, 46, 105, 116,
               34, 44, 32, 34, 114, 101, 112, 111, 115, 105, 116, 111, 114, 121, 34, 58, 32,
               123, 34, 102, 117, 108, 108, 95, 110, 97, 109, 101, 34, 58, 32, 34, 116, 101,
               115, 116, 105, 110, 103, 47, 116, 101, 115, 116, 34, 125, 44, 32, 34, 112, 117,
               115, 104, 101, 114, 34, 58, 32, 123, 34, 110, 97, 109, 101, 34, 58, 32, 34, 116,
               104, 101, 45, 116, 101, 115, 116, 101, 114, 34, 125, 44, 32, 34, 97, 102, 116,
               101, 114, 34, 58, 32, 34, 115, 111, 109, 101, 45, 115, 104, 97, 34, 44, 32, 34,
               104, 101, 97, 100, 95, 99, 111, 109, 109, 105, 116, 34, 58, 32, 123, 34, 105,
               100, 34, 58, 32, 34, 115, 111, 109, 101, 45, 115, 104, 97, 49, 34, 44, 32, 34,
               109, 101, 115, 115, 97, 103, 101, 34, 58, 32, 34, 77, 101, 114, 103, 101, 32,
               112, 117, 108, 108, 32, 114, 101, 113, 117, 101, 115, 116, 58, 32, 65, 32, 108,
               111, 118, 101, 108, 121, 92, 110, 92, 110, 99, 111, 109, 109, 105, 116, 32, 109,
               101, 115, 115, 97, 103, 101, 46, 34, 44, 32, 34, 97, 100, 100, 101, 100, 34, 58,
               32, 91, 93, 44, 32, 34, 114, 101, 109, 111, 118, 101, 100, 34, 58, 32, 91, 34,
               97, 46, 111, 117, 116, 34, 44, 32, 34, 103, 101, 110, 34, 93, 44, 32, 34, 109,
               111, 100, 105, 102, 105, 101, 100, 34, 58, 32, 91, 34, 82, 69, 65, 68, 77, 69,
               46, 109, 100, 34, 44, 32, 34, 82, 69, 65, 68, 77, 69, 34, 44, 32, 34, 76, 73,
               67, 69, 78, 83, 69, 34, 93, 125, 125>>,
     json |-> Dict([
                          ref |-> Str(<<116, 104, 101, 47, 109, 97, 115, 116, 101, 114>>),
                          deleted |-> Bool(FALSE),
                          compare |-> Str(<<104, 116, 116, 112, 58, 47, 47, 116, 104, 101, 45, 117, 114, 108, 46, 105, 116>>),
                          repository |-> Dict([
                              full_name |-> Str(<<116, 101, 115, 116, 105, 110, 103, 47, 116, 101, 115, 116>>)]),
                          pusher |-> Dict([
                              name |-> Str(<<116, 104, 101, 45, 116, 101, 115, 116, 101, 114>>)]),
                          after |-> Str(<<115, 111, 109, 101, 45, 115, 104, 97>>),
                          head_commit |-> Dict([
                              id |-> Str(<<115, 111, 109, 101, 45, 115, 104, 97, 49>>),
                              message |-> Str(<<77, 101, 114, 103, 101, 32, 112, 117, 108, 108, 32, 114, 101, 113, 117, 101, 115, 116, 58, 32, 65, 32, 108, 111, 118, 101, 108, 121, 10, 10, 99, 111, 109, 109, 105, 116, 32, 109, 101, 115, 115, 97, 103, 101, 46>>),
                              added |-> List(<<>>),
                              removed |-> List(<<Str(<<97, 46, 111, 117, 116>>), Str(<<103, 101, 110>>)>>),
                              modified |-> List(<<Str(<<82, 69, 65, 68, 77, 69, 46, 109, 100>>), Str(<<82, 69, 65, 68, 77, 69>>), Str(<<76, 73, 67, 69, 78, 83, 69>>)>>)])]),
     signature |-> <<115, 104, 97, 49, 61, 101, 50, 102, 55, 97, 97, 57, 98, 48, 57, 56, 53,
                    98, 55, 53, 99, 98, 53, 99, 51, 51, 100, 48, 50, 53, 53, 98, 56, 48, 51,
                    53, 54, 55, 52, 51, 101, 53, 100, 51, 52>>]
\* the merge push without compare:
\*   {"ref": "the/master", "deleted": false, "repository": {"full_name": "testing/test"}, "pu
\*   sher": {"name": "the-tester", "email": "the@example.com"}, "after": "some-sha", "head_co
\*   mmit": {"id": "some-sha1", "message": "Merge pull request: A lovely\n\ncommit message.",
\*    "added": [], "removed": ["a.out", "gen"], "modified": ["README.md", "README", "LICENSE"
\*   ]}}
Body_NoCompare ==
    [data |-> <<123, 34, 114, 101, 102, 34, 58, 32, 34, 116, 104, 101, 47, 109, 97, 115, 116,
               101, 114, 34, 44, 32, 34, 100, 101, 108, 101, 116, 101, 100, 34, 58, 32, 102,
               97, 108, 115, 101, 44, 32, 34, 114, 101, 112, 111, 115, 105, 116, 111, 114, 121,
               34, 58, 32, 123, 34, 102, 117, 108, 108, 95, 110, 97, 109, 101, 34, 58, 32, 34,
               116, 101, 115, 116, 105, 110, 103, 47, 116, 101, 115, 116, 34, 125, 44, 32, 34,
               112, 117, 115, 104, 101, 114, 34, 58, 32, 123, 34, 110, 97, 109, 101, 34, 58,
               32, 34, 116, 104, 101, 45, 116, 101, 115, 116, 101, 114, 34, 44, 32, 34, 101,
               109, 97, 105, 108, 34, 58, 32, 34, 116, 104, 101, 64, 101, 120, 97, 109, 112,
               108, 101, 46, 99, 111, 109, 34, 125, 44, 32, 34, 97, 102, 116, 101, 114, 34, 58,
               32, 34, 115, 111, 109, 101, 45, 115, 104, 97, 34, 44, 32, 34, 104, 101, 97, 100,
               95, 99, 111, 109, 109, 105, 116, 34, 58, 32, 123, 34, 105, 100, 34, 58, 32, 34,
               115, 111, 109, 101, 45, 115, 104, 97, 49, 34, 44, 32, 34, 109, 101, 115, 115,
               97, 103, 101, 34, 58, 32, 34, 77, 101, 114, 103, 101, 32, 112, 117, 108, 108,
               32, 114, 101, 113, 117, 101, 115, 116, 58, 32, 65, 32, 108, 111, 118, 101, 108,
               121, 92, 110, 92, 110, 99, 111, 109, 109, 105, 116, 32, 109, 101, 115, 115, 97,
               103, 101, 46, 34, 44, 32, 34, 97, 100, 100, 101, 100, 34, 58, 32, 91, 93, 44,
               32, 34, 114, 101, 109, 111, 118, 101, 100, 34, 58, 32, 91, 34, 97, 46, 111, 117,
               116, 34, 44, 32, 34, 103, 101, 110, 34, 93, 44, 32, 34, 109, 111, 100, 105, 102,
               105, 101, 100, 34, 58, 32, 91, 34, 82, 69, 65, 68, 77, 69, 46, 109, 100, 34, 44,
               32, 34, 82, 69, 65, 68, 77, 69, 34, 44, 32, 34, 76, 73, 67, 69, 78, 83, 69, 34,
               93, 125, 125>>,
     json |-> Dict([
                          ref |-> Str(<<116, 104, 101, 47, 109, 97, 115, 116, 101, 114>>),
                          deleted |-> Bool(FALSE),
                          repository |-> Dict([
                              full_name |-> Str(<<116, 101, 115, 116, 105, 110, 103, 47, 116, 101, 115, 116>>)]),
                          pusher |-> Dict([
                              name |-> Str(<<116, 104, 101, 45, 116, 101, 115, 116, 101, 114>>),
                              email |-> Str(<<116, 104, 101, 64, 101, 120, 97, 109, 112, 108, 101, 46, 99, 111, 109>>)]),
                          after |-> Str(<<115, 111, 109, 101, 45, 115, 104, 97>>),
                          head_commit |-> Dict([
                              id |-> Str(<<115, 111, 109, 101, 45, 115, 104, 97, 49>>),
                              message |-> Str(<<77, 101, 114, 103, 101, 32, 112, 117, 108, 108, 32, 114, 101, 113, 117, 101, 115, 116, 58, 32, 65, 32, 108, 111, 118, 101, 108, 121, 10, 10, 99, 111, 109, 109, 105, 116, 32, 109, 101, 115, 115, 97, 103, 101, 46>>),
                              added |-> List(<<>>),
                              removed |-> List(<<Str(<<97, 46, 111, 117, 116>>), Str(<<103, 101, 110>>)>>),
                              modified |-> List(<<Str(<<82, 69, 65, 68, 77, 69, 46, 109, 100>>), Str(<<82, 69, 65, 68, 77, 69>>), Str(<<76, 73, 67, 69, 78, 83, 69>>)>>)])]),
     signature |-> <<115, 104, 97, 49, 61, 102, 50, 98, 99, 102, 99, 97, 100, 99, 49, 98, 57,
                    56, 51, 51, 101, 98, 97, 99, 54, 101, 97, 48, 99, 102, 102, 102, 100, 57,
                    56, 49, 49, 100, 48, 49, 55, 50, 51, 98, 102>>]
\* an empty body, which is no JSON document (test_push_invalid_signature posts none)
Body_NotJson ==
    [data |-> <<>>,
     json |-> Raise("BadRequest"),
     signature |-> <<115, 104, 97, 49, 61, 48, 54, 97, 98, 56, 102, 53, 52, 49, 49, 48, 48, 50,
                    100, 100, 52, 53, 53, 99, 100, 100, 50, 100, 51, 48, 55, 102, 54, 56, 49,
                    52, 55, 51, 57, 54, 98, 49, 102, 102, 49>>]

(***************************************************************************)
(* Arguments of direct calls of _send_email.                               *)
(***************************************************************************)
\* self.msg_info of the unit tests
TestMsgInfo ==
    Dict([
        repo |-> Str(<<84, 69, 83, 84, 73, 78, 71, 47, 116, 101, 115, 116>>),
        branch |-> Str(<<116, 104, 101, 47, 84, 69, 83, 84, 47, 109, 97, 115, 116, 101, 114>>),
        revision |-> Str(<<115, 111, 109, 101, 45, 84, 69, 83, 84, 45, 115, 104, 97, 49>>),
        message |-> Str(<<77, 101, 114, 103, 101, 32, 112, 117, 108, 108, 32, 114, 101, 113, 117, 101, 115, 116, 32, 65, 32, 108, 111, 118, 101, 108, 121, 32, 84, 69, 83, 84, 10, 10, 84, 69, 83, 84, 32, 99, 111, 109, 109, 105, 116, 32, 109, 101, 115, 115, 97, 103, 101, 46>>),
        changed_files |-> Str(<<82, 32, 97, 46, 111, 117, 116, 10, 82, 32, 103, 101, 110, 10, 77, 32, 82, 69, 65, 68, 77, 69, 46, 109, 100, 10, 77, 32, 82, 69, 65, 68, 77, 69, 10, 77, 32, 76, 73, 67, 69, 78, 83, 69>>),
        pusher |-> Str(<<84, 69, 83, 84, 73, 78, 71, 45, 116, 104, 101, 45, 116, 101, 115, 116, 101, 114>>),
        pusher_email |-> Str(<<84, 69, 83, 84, 73, 78, 71, 45, 116, 104, 101, 45, 116, 101, 115, 116, 101, 114, 32, 60, 84, 69, 83, 84, 64, 101, 120, 97, 109, 112, 108, 101, 46, 99, 111, 109, 62>>),
        compare_url |-> Str(<<104, 116, 116, 112, 58, 47, 47, 84, 69, 83, 84, 46, 102, 97, 107, 101>>),
        pr_url |-> Str(<<104, 116, 116, 112, 58, 47, 47, 84, 69, 83, 84, 46, 102, 97, 107, 101>>)])
\* {'pusher_email': 'x'}, the argument of test_send_email__no_sender
BareMsgInfo ==
    Dict([
        pusher_email |-> Str(<<120>>)])
\* self.msg_info with None for the pusher address
NoPusherMsgInfo == Dict([TestMsgInfo.v EXCEPT !.pusher_email = PyNone])

(***************************************************************************)
(* os.environ.  Every variable the program reads has an entry; the entry   *)
(* of a variable that is not in the environment is Unset.                  *)
(***************************************************************************)
Unset == <<-1>>
\* name in os.environ
InEnviron(name) == environ[name] # Unset
\* os.environ.get(name)
EnvironGet(name) == IF InEnviron(name) THEN Str(environ[name]) ELSE PyNone

(***************************************************************************)
(* How a request ends.                                                     *)
(***************************************************************************)
NoRequest == [t |-> "none"]
NoResponse == [t |-> "none"]
NoLookup == [kind |-> "none"]
NoCall == [fn |-> "none"]
\* the handler returned a text: Flask answers 200 with that body
Ok(body) == [t |-> "ok", status |-> 200, body |-> body]
\* an exception left the handler: Flask answers with an error status
Error(status, exc) == [t |-> "error", status |-> status, exc |-> exc]
\* a function that was called directly returned
Returned == [t |-> "returned"]

End(r) == pc' = "done" /\ response' = r
Goto(label) == pc' = label /\ UNCHANGED response
Called(fn) == log' = Append(log, [fn |-> fn])

\* the first exception among values that were evaluated in this order
FirstRaise(vals) ==
    LET raised == SelectSeq(vals, IsRaise)
    IN IF Len(raised) > 0 THEN raised[1] ELSE PyNone

(***************************************************************************)
(* commit_email, one action for each step of the handler.                  *)
(***************************************************************************)
\* A POST to /commit-email arrives.
ReceiveRequest(r) ==
    /\ pc = "idle"
    /\ request' = r
    /\ pc' = "event"
    /\ UNCHANGED <<environ, response, log, secret, json_dict, changes, pusher_email,
                   lookup, prURL, msg_info, message, smtp, outbox, call, ret>>

\* a faulty event check, which lets every event that is named pass
CheckEventUnfiltered ==
    /\ pc = "event"
    /\ IF request.event = PyNone THEN End(Error(400, "BadRequestKeyError"))
       ELSE Goto("secret")
    /\ UNCHANGED <<environ, request, log, secret, json_dict, changes, pusher_email,
                   lookup, prURL, msg_info, message, smtp, outbox, call, ret>>

\* Lines 51-55: headers['x-github-event'] is a 400 when the header is
\* missing; any event but "push" is skipped.
CheckEvent ==
    /\ pc = "event"
    /\ IF request.event = PyNone THEN End(Error(400, "BadRequestKeyError"))
       ELSE IF request.event # Str(PushText) THEN End(Ok(Nope))
       ELSE Goto("secret")
    /\ UNCHANGED <<environ, request, log, secret, json_dict, changes, pusher_email,
                   lookup, prURL, msg_info, message, smtp, outbox, call, ret>>

\* a faulty _get_secret, which returns None where no secret is configured
_get_secret_or_none == EnvironGet("GITHUB_COMMIT_EMAILER_SECRET")

\* Lines 119-125.
_get_secret ==
    IF ~InEnviron("GITHUB_COMMIT_EMAILER_SECRET") THEN Raise("ValueError")
    ELSE EnvironGet("GITHUB_COMMIT_EMAILER_SECRET")

\* Line 58.
GetSecret ==
    /\ pc = "secret"
    /\ Called("_get_secret")
    /\ IF IsRaise(_get_secret) THEN End(Error(500, _get_secret.exc)) /\ UNCHANGED secret
       ELSE secret' = _get_secret /\ Goto("verify")
    /\ UNCHANGED <<environ, request, json_dict, changes, pusher_email,
                   lookup, prURL, msg_info, message, smtp, outbox, call, ret>>

\* a faulty signature check, which goes on whatever the result is
AfterVerifyLenient(valid) ==
    IF IsRaise(valid) THEN End(Error(500, valid.exc))
    ELSE Goto("parse")

\* Lines 61-63: where the result of _valid_signature leads.
AfterVerify(valid) ==
    IF IsRaise(valid) THEN End(Error(500, valid.exc))
    ELSE IF ~Truthy(valid) THEN End(Ok(Nope))
    ELSE Goto("parse")

\* headers.get('x-hub-signature', '')
gh_signature == IF request.signature = PyNone THEN Str(<<>>) ELSE request.signature

\* Lines 60-63.
VerifySignature ==
    /\ pc = "verify"
    /\ Called("_valid_signature")
    /\ AfterVerify(_valid_signature(gh_signature, Bytes(request.data), secret))
    /\ UNCHANGED <<environ, request, secret, json_dict, changes, pusher_email,
                   lookup, prURL, msg_info, message, smtp, outbox, call, ret>>

\* Line 65: get_json() answers 400 to a body that is no JSON document.
ParseBody ==
    /\ pc = "parse"
    /\ Called("get_json")
    /\ IF IsRaise(request.json) THEN End(Error(400, request.json.exc)) /\ UNCHANGED json_dict
       ELSE json_dict' = request.json /\ Goto("merge")
    /\ UNCHANGED <<environ, request, secret, changes, pusher_email,
                   lookup, prURL, msg_info, message, smtp, outbox, call, ret>>

\* needle in hay, where hay is any value: None is not iterable
In(needle, hay) ==
    IF IsRaise(hay) THEN hay
    ELSE IF hay.t = "str" THEN Bool(Contains(needle, hay.v))
    ELSE Raise("TypeError")

\* Lines 67-68.
CheckMerge ==
    /\ pc = "merge"
    /\ LET found == In(MergeMarker, GetItem(GetItem(json_dict, "head_commit"), "message"))
       IN IF IsRaise(found) THEN End(Error(500, found.exc))
          ELSE IF ~found.v THEN End(Ok(Nope))
          ELSE Goto("deleted")
    /\ UNCHANGED <<environ, request, log, secret, json_dict, changes, pusher_email,
                   lookup, prURL, msg_info, message, smtp, outbox, call, ret>>

\* Lines 70-72.
CheckDeleted ==
    /\ pc = "deleted"
    /\ LET deleted == GetItem(json_dict, "deleted")
       IN IF IsRaise(deleted) THEN End(Error(500, deleted.exc))
          ELSE IF Truthy(deleted) THEN End(Ok(Nope))
          ELSE Goto("compose")
    /\ UNCHANGED <<environ, request, log, secret, json_dict, changes, pusher_email,
                   lookup, prURL, msg_info, message, smtp, outbox, call, ret>>

\* for f in x: a list gives its elements, a text its characters, None and
\* a bool are not iterable
Iter(x) ==
    IF IsRaise(x) THEN x
    ELSE IF x.t = "list" THEN x
    ELSE IF x.t = "str" THEN List(AsTuple([i \in 1..Len(x.v) |-> Str(<<x.v[i]>>)]))
    ELSE Raise("TypeError")

\* ['A {0}'.format(f) for f in files]
Prefixed(prefix, files) ==
    AsTuple([i \in 1..Len(files) |-> prefix \o FormatValue(files[i])])

\* a faulty listing, which joins the three listings whether or not they are
\* empty
ChangedFilesAll(added, removed, modified) ==
    LET a == Join(Newline, Prefixed(<<65, 32>>, added))
        r == Join(Newline, Prefixed(<<82, 32>>, removed))
        m == Join(Newline, Prefixed(<<77, 32>>, modified))
    IN Join(Newline, <<a, r, m>>)

\* Lines 74-80: the three listings, joined where they are not empty.
\* The prefixes are "A ", "R " and "M ".
ChangedFiles(added, removed, modified) ==
    LET a == Join(Newline, Prefixed(<<65, 32>>, added))
        r == Join(Newline, Prefixed(<<82, 32>>, removed))
        m == Join(Newline, Prefixed(<<77, 32>>, modified))
    IN Join(Newline, SelectSeq(<<a, r, m>>, LAMBDA i : Len(i) > 0))

\* Lines 82-83: '{0} <{1}>'.format(name, email)
FormatPusher(name, email) ==
    FormatValue(name) \o <<32, 60>> \o FormatValue(email) \o <<62>>

\* Lines 85-86: "https://api.github.com/repos/{}/commits/{}/pulls"
githubUrl ==
    <<104, 116, 116, 112, 115, 58, 47, 47, 97, 112, 105, 46, 103, 105, 116, 104, 117,
     98, 46, 99, 111, 109, 47, 114, 101, 112, 111, 115, 47>>
        \o FormatValue(GetItem(GetItem(json_dict, "repository"), "full_name"))
        \o <<47, 99, 111, 109, 109, 105, 116, 115, 47>>
        \o FormatValue(GetItem(json_dict, "after"))
        \o <<47, 112, 117, 108, 108, 115>>

\* Lines 74-86.
Compose ==
    /\ pc = "compose"
    /\ LET head_commit == GetItem(json_dict, "head_commit")
           added == Iter(GetItem(head_commit, "added"))
           removed == Iter(GetItem(head_commit, "removed"))
           modified == Iter(GetItem(head_commit, "modified"))
           name == GetItem(GetItem(json_dict, "pusher"), "name")
           email == GetItem(GetItem(json_dict, "pusher"), "email")
           full_name == GetItem(GetItem(json_dict, "repository"), "full_name")
           after == GetItem(json_dict, "after")
           failed == FirstRaise(<<added, removed, modified, name, email, full_name, after>>)
       IN IF IsRaise(failed)
          THEN End(Error(500, failed.exc)) /\ UNCHANGED <<changes, pusher_email>>
          ELSE /\ changes' = Str(ChangedFiles(added.v, removed.v, modified.v))
               /\ pusher_email' = Str(FormatPusher(name, email))
               /\ Goto("lookup")
    /\ UNCHANGED <<environ, request, log, secret, json_dict,
                   lookup, prURL, msg_info, message, smtp, outbox, call, ret>>

(***************************************************************************)
(* The pull-request lookup, lines 88-101.                                  *)
(***************************************************************************)
\* requests.get(timeout=10)
LookupTimeout == 10

\* requests.get raised
Raised(exc) == [kind |-> "raise", exc |-> exc]
\* requests.get returned a response, and response.json() gives (or raises) j
Answered(j) == [kind |-> "response", json |-> j]

\* the ways the lookup fails: a network error, a timeout, a body that is no
\* JSON, an empty result list, a result without the field, an error object
\* ("Not Found"),
\* a null
LookupFailures ==
    { Raised("ConnectionError"), Raised("Timeout"),
      Answered(Raise("JSONDecodeError")),
      Answered(List(<<>>)),
      Answered(List(<<Dict(<<>>)>>)),
      Answered(Dict([message |-> Str(<<78, 111, 116, 32, 70, 111, 117, 110, 100>>)])),
      Answered(PyNone) }

\* a result list whose first element has the field: with a URL, with an
\* empty text, with a null
LookupResults ==
    { Answered(List(<<Dict([html_url |-> Str(PullRequestUrl)])>>)),
      Answered(List(<<Dict([html_url |-> Str(<<>>)])>>)),
      Answered(List(<<Dict([html_url |-> PyNone])>>)) }

LookupOutcomes == LookupFailures \cup LookupResults

\* a faulty lookup, which catches the exceptions of requests.get only
ResolvePrUrlUncaught(outcome) ==
    IF outcome.kind = "raise" THEN Str(Unavailable)
    ELSE GetItem(GetFirst(outcome.json), "html_url")

\* Lines 88-101: responseJSON[0]['html_url'], or "Unavailable" after any
\* exception.
ResolvePrUrl(outcome) ==
    IF outcome.kind = "raise" THEN Str(Unavailable)
    ELSE LET html_url == GetItem(GetFirst(outcome.json), "html_url")
         IN IF IsRaise(html_url) THEN Str(Unavailable) ELSE html_url

LookupPullRequest(outcome) ==
    /\ pc = "lookup"
    /\ log' = Append(log, [fn |-> "requests.get", url |-> githubUrl, timeout |-> LookupTimeout])
    /\ lookup' = outcome
    /\ prURL' = ResolvePrUrl(outcome)
    /\ Goto("msg_info")
    /\ UNCHANGED <<environ, request, secret, json_dict, changes, pusher_email,
                   msg_info, message, smtp, outbox, call, ret>>

(***************************************************************************)
(* Lines 103-114: msg_info and the call of _send_email.                    *)
(***************************************************************************)
\* the 7 of id[:7]
RevisionLength == 7

\* x[:n]
Slice(x, n) ==
    IF IsRaise(x) THEN x
    ELSE IF x.t = "str" THEN Str(Prefix(x.v, n))
    ELSE IF x.t = "list" THEN List(Prefix(x.v, n))
    ELSE Raise("TypeError")

BuildMsgInfo ==
    /\ pc = "msg_info"
    /\ LET repo == GetItem(GetItem(json_dict, "repository"), "full_name")
           branch == GetItem(json_dict, "ref")
           revision == Slice(GetItem(GetItem(json_dict, "head_commit"), "id"), RevisionLength)
           message_ == GetItem(GetItem(json_dict, "head_commit"), "message")
           pusher == GetItem(GetItem(json_dict, "pusher"), "name")
           compare_url == GetItem(json_dict, "compare")
           failed == FirstRaise(<<repo, branch, revision, message_, pusher, compare_url>>)
       IN IF IsRaise(failed)
          THEN End(Error(500, failed.exc)) /\ UNCHANGED <<msg_info, log>>
          ELSE /\ msg_info' = Dict([repo |-> repo,
                                    branch |-> branch,
                                    revision |-> revision,
                                    message |-> message_,
                                    changed_files |-> changes,
                                    pusher |-> pusher,
                                    pusher_email |-> pusher_email,
                                    compare_url |-> compare_url,
                                    pr_url |-> prURL])
               /\ Called("_send_email")
               /\ Goto("send")
    /\ UNCHANGED <<environ, request, secret, json_dict, changes, pusher_email,
                   lookup, prURL, message, smtp, outbox, call, ret>>

(***************************************************************************)
(* _send_email and its helpers.                                            *)
(***************************************************************************)
\* the k-th smallest member of a set of numbers
Nth(S, k) == CHOOSE e \in S : Cardinality({x \in S : x < e}) = k - 1

\* s.split(sep) for a separator of one character
Split(s, sep) ==
    LET at == {i \in 1..Len(s) : s[i] = sep}
        n == Cardinality(at) + 1
    IN AsTuple([k \in 1..n |->
           SubSeq(s, IF k = 1 THEN 1 ELSE Nth(at, k - 1) + 1,
                     IF k = n THEN Len(s) ELSE Nth(at, k) - 1)])

\* the characters str.splitlines breaks a line at: \n \v \f \r, the
\* separators FS GS RS, NEL, LINE SEPARATOR and PARAGRAPH SEPARATOR
LineBreaks == {10, 11, 12, 13, 28, 29, 30, 133, 8232, 8233}

\* s.splitlines(): the lines without their ends; \r\n is one line end, and
\* no empty line follows the last line end
splitlines(s) ==
    LET ends == {i \in 1..Len(s) :
                    /\ s[i] \in LineBreaks
                    /\ ~(s[i] = 13 /\ i < Len(s) /\ s[i + 1] = 10)}
        last == IF ends = {} THEN 0 ELSE Nth(ends, Cardinality(ends))
        n == Cardinality(ends) + (IF last < Len(s) THEN 1 ELSE 0)
        LineEnd(e) == IF s[e] = 10 /\ e > 1 /\ s[e - 1] = 13 THEN e - 2 ELSE e - 1
    IN AsTuple([k \in 1..n |->
           SubSeq(s, IF k = 1 THEN 1 ELSE Nth(ends, k - 1) + 1,
                     IF k > Cardinality(ends) THEN Len(s) ELSE LineEnd(Nth(ends, k)))])

\* the 50 of subject_msg[:50]
SubjectLength == 50

\* Lines 195-209; the repository name is not used.
_get_subject(repo, message_) ==
    IF IsRaise(repo) THEN repo
    ELSE IF IsRaise(message_) THEN message_
    ELSE IF message_.t # "str" THEN Raise("AttributeError")
    ELSE LET message_lines == splitlines(message_.v)
         IN IF Len(message_lines) >= 3
            THEN Str(SubjectPrefix \o Prefix(message_lines[3], SubjectLength))
            ELSE IF Len(message_lines) = 0 THEN Raise("IndexError")
            ELSE Str(SubjectPrefix \o Prefix(message_lines[1], SubjectLength))

\* a faulty _get_sender, which takes the flag for set only if it has a value
_get_sender_if_nonempty(pusher_email_) ==
    IF EnvironGet("GITHUB_COMMIT_EMAILER_SEND_FROM_AUTHOR") \notin {PyNone, Str(<<>>)}
    THEN pusher_email_
    ELSE EnvironGet("GITHUB_COMMIT_EMAILER_SENDER")

\* Lines 185-192.
_get_sender(pusher_email_) ==
    LET use_author == InEnviron("GITHUB_COMMIT_EMAILER_SEND_FROM_AUTHOR")
    IN IF use_author THEN pusher_email_
       ELSE EnvironGet("GITHUB_COMMIT_EMAILER_SENDER")

\* Lines 154-166: the template with the fields of msg_info formatted in; a
\* missing field is a KeyError.
FormatBody(info) ==
    LET value(i) == IF BodyTemplate[i].field = "" THEN Str(<<>>)
                    ELSE GetItem(info, BodyTemplate[i].field)
        values == AsTuple([i \in 1..Len(BodyTemplate) |-> value(i)])
        failed == FirstRaise(values)
    IN IF IsRaise(failed) THEN failed
       ELSE Str(Join(<<>>, AsTuple([i \in 1..Len(BodyTemplate) |->
                    BodyTemplate[i].text
                        \o (IF BodyTemplate[i].field = "" THEN <<>> ELSE FormatValue(values[i]))])))

\* Lines 130-147: the locals of _send_email that the environment and the
\* argument determine.
sender == _get_sender(GetItem(msg_info, "pusher_email"))
recipient == EnvironGet("GITHUB_COMMIT_EMAILER_RECIPIENT")
recipient_ccs == EnvironGet("GITHUB_COMMIT_EMAILER_RECIPIENT_CC")
reply_to == EnvironGet("GITHUB_COMMIT_EMAILER_REPLY_TO")
\* a faulty approved, which reads the reply-to variable
approved_as_reply_to == EnvironGet("GITHUB_COMMIT_EMAILER_REPLY_TO")
approved == EnvironGet("GITHUB_COMMIT_EMAILER_APPROVED_HEADER")
\* 44 is the "," of split(",")
recipients ==
    IF recipient_ccs # PyNone
    THEN LET recipient_cc == Split(recipient_ccs.v, 44)
         IN AsTuple([i \in 1..Len(recipient_cc) |-> Str(recipient_cc[i])]) \o <<recipient>>
    ELSE <<recipient>>

\* Lines 149-152.
port == 587
login == EnvironGet("MAILGUN_LOGIN")
password == EnvironGet("MAILGUN_PASSWORD")

Header(name, value) == [name |-> name, value |-> value]
\* MIMEText(body, "plain", "utf-8"): the constructor sets the headers
\* Content-Type: text/plain; charset="utf-8", MIME-Version: 1.0 and
\* Content-Transfer-Encoding: base64
MIMEText(body) ==
    [headers |-> <<
        Header("Content-Type", Str(<<116, 101, 120, 116, 47, 112, 108, 97, 105, 110, 59, 32, 99, 104, 97,
            114, 115, 101, 116, 61, 34, 117, 116, 102, 45, 56, 34>>)),
        Header("MIME-Version", Str(<<49, 46, 48>>)),
        Header("Content-Transfer-Encoding", Str(<<98, 97, 115, 101, 54, 52>>)) >>,
     payload |-> body]
\* message[name] = value appends a header
SetHeader(m, name, value) == [m EXCEPT !.headers = Append(@, Header(name, value))]

\* Lines 168-176.
BuildMessage(subject, body) ==
    LET m1 == SetHeader(MIMEText(body), "Subject", subject)
        m2 == SetHeader(m1, "From", sender)
        m3 == SetHeader(m2, "To", recipient)
        m4 == SetHeader(m3, "Cc", recipient_ccs)
        m5 == IF reply_to # PyNone THEN SetHeader(m4, "reply-to", reply_to) ELSE m4
    IN IF approved # PyNone THEN SetHeader(m5, "approved", approved) ELSE m5

\* Lines 130-176: everything before the connection is opened.
PrepareMessage ==
    /\ pc = "send"
    /\ IF IsRaise(sender) THEN End(Error(500, sender.exc)) /\ UNCHANGED message
       ELSE IF sender = PyNone \/ recipient = PyNone
            THEN End(Error(500, "ValueError")) /\ UNCHANGED message
       ELSE LET subject == _get_subject(GetItem(msg_info, "repo"), GetItem(msg_info, "message"))
                body == FormatBody(msg_info)
                failed == FirstRaise(<<subject, body>>)
            IN IF IsRaise(failed) THEN End(Error(500, failed.exc)) /\ UNCHANGED message
               ELSE message' = BuildMessage(subject, body) /\ Goto("connect")
    /\ UNCHANGED <<environ, request, log, secret, json_dict, changes, pusher_email,
                   lookup, prURL, msg_info, smtp, outbox, call, ret>>

\* the state of the connection opened last
Server(state) == [smtp EXCEPT ![Len(smtp)].state = state]

\* Lines 178-179: smtplib.SMTP(smtp_server, port) connects, or raises.
SmtpConnect(ok) ==
    /\ pc = "connect"
    /\ Called("smtplib.SMTP")
    /\ IF ok THEN /\ smtp' = Append(smtp, [host |-> smtp_server, port |-> port,
                                           state |-> "connected"])
                  /\ Goto("login")
       ELSE End(Error(500, "SMTPConnectError")) /\ UNCHANGED smtp
    /\ UNCHANGED <<environ, request, secret, json_dict, changes, pusher_email,
                   lookup, prURL, msg_info, message, outbox, call, ret>>

\* Line 180.
SmtpLogin(ok) ==
    /\ pc = "login"
    /\ log' = Append(log, [fn |-> "login", user |-> login, password |-> password])
    /\ IF ok THEN smtp' = Server("authenticated") /\ Goto("sendmail")
       ELSE End(Error(500, "SMTPAuthenticationError")) /\ UNCHANGED smtp
    /\ UNCHANGED <<environ, request, secret, json_dict, changes, pusher_email,
                   lookup, prURL, msg_info, message, outbox, call, ret>>

\* Line 181.
SmtpSendmail(ok) ==
    /\ pc = "sendmail"
    /\ Called("sendmail")
    /\ IF ok THEN /\ outbox' = Append(outbox, [sender |-> sender, recipients |-> recipients,
                                               message |-> message])
                  /\ Goto("quit")
       ELSE End(Error(500, "SMTPRecipientsRefused")) /\ UNCHANGED outbox
    /\ UNCHANGED <<environ, request, secret, json_dict, changes, pusher_email,
                   lookup, prURL, msg_info, message, smtp, call, ret>>

\* Line 182.
SmtpQuit ==
    /\ pc = "quit"
    /\ Called("quit")
    /\ smtp' = Server("closed")
    /\ Goto("return")
    /\ UNCHANGED <<environ, request, secret, json_dict, changes, pusher_email,
                   lookup, prURL, msg_info, message, outbox, call, ret>>

\* _send_email returns: to commit_email, which returns 'yep' (line 116),
\* or to the caller of a direct call.
Return ==
    /\ pc = "return"
    /\ End(IF call = NoCall THEN Ok(Yep) ELSE Returned)
    /\ UNCHANGED <<environ, request, log, secret, json_dict, changes, pusher_email,
                   lookup, prURL, msg_info, message, smtp, outbox, call, ret>>

(***************************************************************************)
(* The webhook: one request to a server whose environment is one of        *)
(* Environs.                                                               *)
(***************************************************************************)
Environ(sec, snd, rcp, aut, cc, rep, app) ==
    [GITHUB_COMMIT_EMAILER_SECRET |-> sec,
     GITHUB_COMMIT_EMAILER_SENDER |-> snd,
     GITHUB_COMMIT_EMAILER_RECIPIENT |-> rcp,
     GITHUB_COMMIT_EMAILER_SEND_FROM_AUTHOR |-> aut,
     GITHUB_COMMIT_EMAILER_RECIPIENT_CC |-> cc,
     GITHUB_COMMIT_EMAILER_REPLY_TO |-> rep,
     GITHUB_COMMIT_EMAILER_APPROVED_HEADER |-> app,
     MAILGUN_LOGIN |-> MailgunLogin,
     MAILGUN_PASSWORD |-> MailgunPassword]

\* with and without the secret: a full configuration, one without the
\* recipient, one that sends from the author to a list with copies
Environs ==
    { Environ(sec, SenderAddress, RecipientAddress, Unset, Unset, ReplyToAddress, ApprovedValue) :
        sec \in {Unset, SecretAsciiText} }
    \cup { Environ(sec, SenderAddress, Unset, Unset, Unset, Unset, Unset) :
        sec \in {Unset, SecretAsciiText} }
    \cup { Environ(sec, Unset, RecipientAddress, <<>>, CcAddresses, Unset, Unset) :
        sec \in {Unset, SecretAsciiText} }

Bodies ==
    { Body_Merge, Body_MergeDeleted, Body_NoMerge, Body_BranchDeletion, Body_TestDeleted,
      Body_EmptyObject, Body_NoPusherEmail, Body_NoCompare, Body_NotJson }

\* the event header: missing, "push", "ping"
Events == {PyNone, Str(PushText), Str(PingText)}

\* the signature header: missing, the signature of the body, another one
Requests ==
    UNION { { [event |-> e, signature |-> s, data |-> b.data, json |-> b.json] :
                e \in Events, s \in {PyNone, Str(b.signature), Str(SigBogus)} }
          : b \in Bodies }

Init ==
    /\ environ \in Environs
    /\ request = NoRequest /\ pc = "idle" /\ response = NoResponse /\ log = <<>>
    /\ secret = PyNone /\ json_dict = PyNone /\ changes = PyNone /\ pusher_email = PyNone
    /\ lookup = NoLookup /\ prURL = PyNone /\ msg_info = PyNone
    /\ message = PyNone /\ smtp = <<>> /\ outbox = <<>>
    /\ call = NoCall /\ ret = PyNone

SendEmail ==
    \/ PrepareMessage
    \/ \E ok \in BOOLEAN : SmtpConnect(ok)
    \/ \E ok \in BOOLEAN : SmtpLogin(ok)
    \/ \E ok \in BOOLEAN : SmtpSendmail(ok)
    \/ SmtpQuit
    \/ Return

Next ==
    \/ \E r \in Requests : ReceiveRequest(r)
    \/ CheckEvent
    \/ GetSecret
    \/ VerifySignature
    \/ ParseBody
    \/ CheckMerge
    \/ CheckDeleted
    \/ Compose
    \/ \E outcome \in LookupOutcomes : LookupPullRequest(outcome)
    \/ BuildMsgInfo
    \/ SendEmail

Spec == Init /\ [][Next]_vars

(***************************************************************************)
(* Direct calls of _send_email, as test_send_email__* make them, under     *)
(* every combination of the mail configuration.                            *)
(***************************************************************************)
SendEnvirons ==
    { Environ(Unset, snd, rcp, aut, cc, rep, app) :
        snd \in {Unset, <<>>, SenderAddress},
        rcp \in {Unset, <<>>, RecipientAddress},
        aut \in {Unset, <<>>, Whatevs},
        cc \in {Unset, CcAddresses},
        rep \in {Unset, ReplyToAddress},
        app \in {Unset, ApprovedValue} }

InitSend ==
    /\ environ \in SendEnvirons
    /\ request = NoRequest /\ pc = "send" /\ response = NoResponse
    /\ log = <<[fn |-> "_send_email"]>>
    /\ secret = PyNone /\ json_dict = PyNone /\ changes = PyNone /\ pusher_email = PyNone
    /\ lookup = NoLookup /\ prURL = PyNone
    /\ msg_info \in {TestMsgInfo, BareMsgInfo, NoPusherMsgInfo}
    /\ message = PyNone /\ smtp = <<>> /\ outbox = <<>>
    /\ call = [fn |-> "_send_email"] /\ ret = PyNone

SpecSend == InitSend /\ [][SendEmail]_vars

(***************************************************************************)
(* Direct calls of _valid_signature.                                       *)
(***************************************************************************)
InitSig ==
    /\ environ \in {Environ(Unset, Unset, Unset, Unset, Unset, Unset, Unset)}
    /\ request = NoRequest /\ pc = "call" /\ response = NoResponse /\ log = <<>>
    /\ secret = PyNone /\ json_dict = PyNone /\ changes = PyNone /\ pusher_email = PyNone
    /\ lookup = NoLookup /\ prURL = PyNone /\ msg_info = PyNone
    /\ message = PyNone /\ smtp = <<>> /\ outbox = <<>>
    /\ call \in SigCalls /\ ret = PyNone

ValidSignatureCall ==
    /\ pc = "call"
    /\ ret' = _valid_signature(call.gh_signature, call.body, call.secret)
    /\ End(Returned)
    /\ UNCHANGED <<environ, request, log, secret, json_dict, changes, pusher_email,
                   lookup, prURL, msg_info, message, smtp, outbox, call>>

SpecSig == InitSig /\ [][ValidSignatureCall]_vars

(***************************************************************************)
(* Properties.                                                             *)
(***************************************************************************)
\* how often fn was called while the request was handled
Calls(fn) == Cardinality({i \in 1..Len(log) : log[i].fn = fn})
WasCalled(fn) == Calls(fn) > 0

\* the presented signature is the one hmac gives the raw body under the
\* configured secret (the known answers are those of Python's hmac module)
PresentedSignatureIsValid ==
    /\ environ["GITHUB_COMMIT_EMAILER_SECRET"] = SecretAsciiText
    /\ \E b \in Bodies : b.data = request.data /\ request.signature = Str(b.signature)

\* the head-commit message of the request's payload contains the marker
MessageHasMarker ==
    In(MergeMarker, GetItem(GetItem(request.json, "head_commit"), "message")) = Bool(TRUE)
\* the head-commit message of the request's payload is a text without it
MessageLacksMarker ==
    In(MergeMarker, GetItem(GetItem(request.json, "head_commit"), "message")) = Bool(FALSE)

\* C1: _send_email is called only for a request whose event is "push", whose
\* signature is valid for the raw body under the configured secret, whose
\* head-commit message contains "Merge pull request" and whose deleted flag
\* is false.
SendOnlyForValidMergePush ==
    WasCalled("_send_email") =>
        /\ request.event = Str(PushText)
        /\ PresentedSignatureIsValid
        /\ MessageHasMarker
        /\ GetItem(request.json, "deleted") = Bool(FALSE)

\* a request was answered 'yep' after its mail was handed to the relay
SentAndAcknowledged ==
    /\ pc = "done" /\ response = Ok(Yep)
    /\ Calls("_send_email") = 1 /\ Len(outbox) = 1
    /\ request.data = Body_Merge.data

\* C2: a request whose event is named and is not "push" is answered 'nope'
\* straight after the event check: no function is called, the body is not
\* parsed, nothing is looked up and nothing is sent, whatever the body is.
NonPushIsSkippedUntouched ==
    (pc # "idle" /\ request.event # PyNone /\ request.event # Str(PushText)) =>
        /\ pc \in {"event", "done"}
        /\ log = <<>> /\ secret = PyNone /\ json_dict = PyNone /\ lookup = NoLookup
        /\ msg_info = PyNone /\ smtp = <<>> /\ outbox = <<>>
        /\ pc = "done" => response = Ok(Nope)

\* a "ping" with an empty body was skipped
PingWithEmptyBodySkipped ==
    /\ pc = "done" /\ request.event = Str(PingText) /\ request.data = Body_NotJson.data
    /\ response = Ok(Nope)

\* C3: _valid_signature returns True for the signature hmac gives the body
\* under the secret, and False (never an exception) for that signature or
\* that body with one character replaced and for an empty or malformed
\* signature, whether the arguments are text or bytes.
ValidSignatureIsExact ==
    (pc = "done" /\ call.fn = "_valid_signature") => ret = Bool(call.kind = "valid")

\* the signature of the body 'asdf' under a secret with accents was
\* accepted, the arguments given as commit_email gives them
AccentedSecretAccepted ==
    /\ pc = "done" /\ call.fn = "_valid_signature" /\ call.kind = "valid"
    /\ call.secret = Str(SecretAccentText) /\ call.body = Bytes(<<97, 115, 100, 102>>)
    /\ ret = Bool(TRUE)

\* expected_msg_info of test_test_send_mail
expected_msg_info ==
    Dict([
        repo |-> Str(<<116, 101, 115, 116, 105, 110, 103, 47, 116, 101, 115, 116>>),
        branch |-> Str(<<116, 104, 101, 47, 109, 97, 115, 116, 101, 114>>),
        revision |-> Str(<<115, 111, 109, 101, 45, 115, 104>>),
        message |-> Str(<<77, 101, 114, 103, 101, 32, 112, 117, 108, 108, 32, 114, 101, 113, 117, 101, 115, 116, 58, 32, 65, 32, 108, 111, 118, 101, 108, 121, 10, 10, 99, 111, 109, 109, 105, 116, 32, 109, 101, 115, 115, 97, 103, 101, 46>>),
        changed_files |-> Str(<<82, 32, 97, 46, 111, 117, 116, 10, 82, 32, 103, 101, 110, 10, 77, 32, 82, 69, 65, 68, 77, 69, 46, 109, 100, 10, 77, 32, 82, 69, 65, 68, 77, 69, 10, 77, 32, 76, 73, 67, 69, 78, 83, 69>>),
        pusher |-> Str(<<116, 104, 101, 45, 116, 101, 115, 116, 101, 114>>),
        pusher_email |-> Str(<<116, 104, 101, 45, 116, 101, 115, 116, 101, 114, 32, 60, 116, 104, 101, 64, 101, 120, 97, 109, 112, 108, 101, 46, 99, 111, 109, 62>>),
        compare_url |-> Str(<<104, 116, 116, 112, 58, 47, 47, 116, 104, 101, 45, 117, 114, 108, 46, 105, 116>>),
        pr_url |-> Str(<<85, 110, 97, 118, 97, 105, 108, 97, 98, 108, 101>>)])

\* the payload carries every field msg_info is made of
CarriesMessageFields ==
    LET head_commit == GetItem(json_dict, "head_commit")
    IN ~IsRaise(FirstRaise(<< GetItem(GetItem(json_dict, "repository"), "full_name"),
                               GetItem(json_dict, "ref"),
                               GetItem(json_dict, "compare"),
                               GetItem(head_commit, "id"),
                               GetItem(head_commit, "message"),
                               GetItem(GetItem(json_dict, "pusher"), "name") >>))

\* msg_info holds the fields of the payload
MsgInfoFromPayload ==
    LET head_commit == GetItem(json_dict, "head_commit")
        pusher == GetItem(json_dict, "pusher")
    IN /\ GetItem(msg_info, "repo") = GetItem(GetItem(json_dict, "repository"), "full_name")
       /\ GetItem(msg_info, "branch") = GetItem(json_dict, "ref")
       /\ GetItem(msg_info, "revision") = Slice(GetItem(head_commit, "id"), RevisionLength)
       /\ GetItem(msg_info, "message") = GetItem(head_commit, "message")
       /\ GetItem(msg_info, "changed_files") = changes
       /\ GetItem(msg_info, "pusher") = GetItem(pusher, "name")
       /\ GetItem(msg_info, "pusher_email")
              = Str(FormatPusher(GetItem(pusher, "name"), GetItem(pusher, "email")))
       /\ GetItem(msg_info, "compare_url") = GetItem(json_dict, "compare")

\* C4: whatever way the lookup fails, the handler goes on: the URL becomes
\* "Unavailable" and, for a payload that carries the fields of the message,
\* _send_email is called exactly once, with the other fields of msg_info
\* taken from the payload.
LookupFailureIsNotFatal ==
    lookup \in LookupFailures =>
        /\ prURL = Str(Unavailable)
        /\ (pc # "msg_info" /\ CarriesMessageFields) =>
              /\ Calls("_send_email") = 1
              /\ MsgInfoFromPayload
              /\ GetItem(msg_info, "pr_url") = Str(Unavailable)

\* after a network error, _send_email was called with the msg_info that
\* test_test_send_mail expects
SentAfterNetworkError ==
    /\ lookup = Raised("ConnectionError")
    /\ Calls("_send_email") = 1
    /\ msg_info = expected_msg_info

\* C5: the pr_url of every msg_info given to _send_email is a text that is
\* not empty.
PrUrlIsNeverEmpty ==
    WasCalled("_send_email") =>
        /\ GetItem(msg_info, "pr_url").t = "str"
        /\ GetItem(msg_info, "pr_url").v # <<>>

\* the request is one of the expected validation failures: an event that is
\* not "push" or, where a secret is configured, a signature that is not
\* valid or, where the signature is valid, a message without the marker or
\* a deleted branch
ExpectedValidationFailure ==
    /\ request.event # PyNone
    /\ \/ request.event # Str(PushText)
       \/ /\ InEnviron("GITHUB_COMMIT_EMAILER_SECRET")
          /\ \/ ~PresentedSignatureIsValid
             \/ MessageLacksMarker
             \/ GetItem(request.json, "deleted") = Bool(TRUE)

\* C6: every expected validation failure ends with 200 and 'nope', and
\* 'yep' is returned only after _send_email was called and returned.
ValidationFailuresAreAcknowledged ==
    pc = "done" =>
        /\ ExpectedValidationFailure => response = Ok(Nope)
        /\ response = Ok(Yep) =>
              /\ Calls("_send_email") = 1
              /\ log[Len(log)].fn = "quit"

\* C7, as stated: without a secret every request that names its event ends
\* in the configuration error, not in an acknowledgement.
MissingSecretIsFatal ==
    (pc = "done" /\ request.event # PyNone
        /\ ~InEnviron("GITHUB_COMMIT_EMAILER_SECRET")) =>
        response = Error(500, "ValueError")

\* C7: without a secret a "push" request ends in the configuration error
\* that _get_secret raises; the signature is not verified, the body is not
\* parsed, nothing is looked up and nothing is sent.
MissingSecretIsFatalToPush ==
    (pc # "idle" /\ request.event = Str(PushText)
        /\ ~InEnviron("GITHUB_COMMIT_EMAILER_SECRET")) =>
        /\ pc \in {"event", "secret", "done"}
        /\ ~WasCalled("_valid_signature") /\ ~WasCalled("get_json")
        /\ ~WasCalled("requests.get") /\ ~WasCalled("_send_email")
        /\ json_dict = PyNone /\ smtp = <<>> /\ outbox = <<>>
        /\ pc = "done" => response = Error(500, "ValueError")

\* a "push" with the signature of its body ended in the error, no secret
\* being configured
SignedPushWithoutSecretFailed ==
    /\ pc = "done" /\ ~InEnviron("GITHUB_COMMIT_EMAILER_SECRET")
    /\ request.event = Str(PushText) /\ request.signature = Str(Body_Merge.signature)
    /\ request.data = Body_Merge.data
    /\ response = Error(500, "ValueError")
    /\ log = <<[fn |-> "_get_secret"]>>

\* an address that is None or the empty text
Missing(address) == address = PyNone \/ address = Str(<<>>)

\* C8: where the sender or the recipient is empty or unset, _send_email ends
\* in the configuration error, and no connection is opened and nothing is
\* transmitted.
EmptyOrUnsetAddressIsRejected ==
    (call.fn = "_send_email" /\ (Missing(sender) \/ Missing(recipient))) =>
        /\ smtp = <<>> /\ outbox = <<>>
        /\ pc \in {"send", "done"}
        /\ pc = "done" => response = Error(500, "ValueError")

\* the values of the headers of a message that have this name
HeaderValues(m, name) ==
    LET named == SelectSeq(m.headers, LAMBDA h : h.name = name)
    IN [i \in 1..Len(named) |-> named[i].value]

\* C9: every message given to sendmail has one reply-to header with the
\* configured value if GITHUB_COMMIT_EMAILER_REPLY_TO is set and none if it
\* is not, and one approved header with the configured value if
\* GITHUB_COMMIT_EMAILER_APPROVED_HEADER is set and none if it is not.
OptionalHeadersFollowConfiguration ==
    \A i \in 1..Len(outbox) :
        /\ HeaderValues(outbox[i].message, "reply-to")
              = IF InEnviron("GITHUB_COMMIT_EMAILER_REPLY_TO")
                THEN <<Str(environ["GITHUB_COMMIT_EMAILER_REPLY_TO"])>> ELSE <<>>
        /\ HeaderValues(outbox[i].message, "approved")
              = IF InEnviron("GITHUB_COMMIT_EMAILER_APPROVED_HEADER")
                THEN <<Str(environ["GITHUB_COMMIT_EMAILER_APPROVED_HEADER"])>> ELSE <<>>

\* a message was sent with a reply-to header and without an approved header
SentWithReplyToOnly ==
    /\ Len(outbox) = 1
    /\ HeaderValues(outbox[1].message, "reply-to") = <<Str(ReplyToAddress)>>
    /\ HeaderValues(outbox[1].message, "approved") = <<>>

\* C10: the From header and the sender given to sendmail are the pusher's
\* address if GITHUB_COMMIT_EMAILER_SEND_FROM_AUTHOR is in the environment,
\* whatever its value, and the configured sender if it is not.
SenderFollowsAuthorFlag ==
    \A i \in 1..Len(outbox) :
        LET expected == IF InEnviron("GITHUB_COMMIT_EMAILER_SEND_FROM_AUTHOR")
                        THEN GetItem(msg_info, "pusher_email")
                        ELSE Str(environ["GITHUB_COMMIT_EMAILER_SENDER"])
        IN /\ outbox[i].sender = expected
           /\ HeaderValues(outbox[i].message, "From") = <<expected>>

\* a message was sent from the pusher, the flag being set to the empty text
\* and a sender being configured
SentFromAuthorDespiteSender ==
    /\ Len(outbox) = 1
    /\ environ["GITHUB_COMMIT_EMAILER_SEND_FROM_AUTHOR"] = <<>>
    /\ environ["GITHUB_COMMIT_EMAILER_SENDER"] = SenderAddress
    /\ outbox[1].sender = GetItem(TestMsgInfo, "pusher_email")
    /\ HeaderValues(outbox[1].message, "From") = <<outbox[1].sender>>

(***************************************************************************)
(* The changed-files listing, lines 74-80: commit_email at line 74, with   *)
(* the parsed payload of a merge push whose three lists of paths are any   *)
(* lists of at most MaxFiles paths.  The steps that lead here are those of *)
(* Spec.                                                                   *)
(***************************************************************************)
MaxFiles == 2

\* paths: "gen", the empty text, and a name with a newline in it, "a\nb"
Paths == {Str(<<103, 101, 110>>), Str(<<>>), Str(<<97, 10, 98>>)}

FileLists == UNION {[1..n -> Paths] : n \in 0..MaxFiles}

\* the payload of test_test_send_mail with these lists in its head commit
PayloadWith(added, removed, modified) ==
    [Body_Merge.json EXCEPT !.v.head_commit.v.added = List(added),
                            !.v.head_commit.v.removed = List(removed),
                            !.v.head_commit.v.modified = List(modified)]

InitFiles ==
    /\ environ \in {Environ(SecretAsciiText, SenderAddress, RecipientAddress,
                            Unset, Unset, Unset, Unset)}
    /\ request = NoRequest /\ pc = "compose" /\ response = NoResponse
    /\ log = <<[fn |-> "_get_secret"], [fn |-> "_valid_signature"], [fn |-> "get_json"]>>
    /\ secret = Str(SecretAsciiText)
    /\ json_dict \in {PayloadWith(a, r, m) : a \in FileLists, r \in FileLists, m \in FileLists}
    /\ changes = PyNone /\ pusher_email = PyNone
    /\ lookup = NoLookup /\ prURL = PyNone /\ msg_info = PyNone
    /\ message = PyNone /\ smtp = <<>> /\ outbox = <<>>
    /\ call = NoCall /\ ret = PyNone

SpecFiles == InitFiles /\ [][Compose]_vars

\* the list of the payload's head commit that has this name
FilesOf(name) == GetItem(GetItem(json_dict, "head_commit"), name).v

\* one line for each path: the added ones, then the removed ones, then the
\* modified ones, each list in its order
ListingLines ==
    Prefixed(<<65, 32>>, FilesOf("added"))
        \o Prefixed(<<82, 32>>, FilesOf("removed"))
        \o Prefixed(<<77, 32>>, FilesOf("modified"))

\* the listing has one line, not empty, for each path, and neither begins
\* nor ends with a newline; it is empty where there is no path
OneLineForEachPath ==
    IF ListingLines = <<>> THEN changes = Str(<<>>)
    ELSE /\ Split(changes.v, 10) = ListingLines
         /\ \A i \in 1..Len(ListingLines) : Split(changes.v, 10)[i] # <<>>
         /\ changes.v[1] # 10 /\ changes.v[Len(changes.v)] # 10

\* no path of the payload has a newline in it
NoNewlineInPaths ==
    \A name \in {"added", "removed", "modified"} :
        \A i \in 1..Len(FilesOf(name)) : ~Contains(Newline, FilesOf(name)[i].v)

\* C11, as stated: for any three lists the listing is the lines "A path",
\* "R path", "M path" in that order joined by newlines, and has exactly one
\* line for each path, no blank line and no newline at either end.
ListingHasOneLinePerPath ==
    changes # PyNone =>
        /\ changes = Str(Join(Newline, ListingLines))
        /\ OneLineForEachPath

\* C11: for any three lists the listing is the lines "A path", "R path",
\* "M path" in that order joined by newlines, empty categories left out;
\* where no path has a newline in it, the listing has exactly one line for
\* each path, no blank line and no newline at either end.
ListingIsJoinedLines ==
    changes # PyNone =>
        /\ changes = Str(Join(Newline, ListingLines))
        /\ NoNewlineInPaths => OneLineForEachPath

\* nothing was added, "gen" and a file with the empty name were removed and
\* "gen" was modified: the listing is "R gen\nR \nM gen"
ListedWithoutAdded ==
    /\ pc = "lookup"
    /\ FilesOf("added") = <<>>
    /\ FilesOf("removed") = <<Str(<<103, 101, 110>>), Str(<<>>)>>
    /\ FilesOf("modified") = <<Str(<<103, 101, 110>>)>>
    /\ changes = Str(<<82, 32, 103, 101, 110, 10, 82, 32, 10, 77, 32, 103, 101, 110>>)

(***************************************************************************)
(* Direct calls of _get_subject, as test_get_subject* make them.  A        *)
(* message is made of at most MaxLines lines, every line ended by the same *)
(* line end, the last one ended or not.                                    *)
(***************************************************************************)
MaxLines == 4

\* n full stops: '.' * n
Dots(n) == [i \in 1..n |-> 46]

\* "this is really long ", the beginning of the long message of
\* test_get_subject__msg_greater_than_50
ReallyLong ==
    <<116, 104, 105, 115, 32, 105, 115, 32, 114, 101, 97, 108, 108, 121, 32, 108, 111,
      110, 103, 32>>

\* the lines: an empty one, "my real message", one of 50 characters, and
\* the one of 120 characters of test_get_subject__msg_greater_than_50
LineTexts ==
    { <<>>,
      <<109, 121, 32, 114, 101, 97, 108, 32, 109, 101, 115, 115, 97, 103, 101>>,
      ReallyLong \o Dots(30),
      ReallyLong \o Dots(100) }

\* "\n" and "\r\n"
LineEnds == {<<10>>, <<13, 10>>}

\* the text whose lines these are; a last line that is not ended is not
\* empty, and the text without lines is the empty text
MessageOf(lines, eol, ended) == Join(eol, lines) \o (IF ended THEN eol ELSE <<>>)

\* 'TEST/it' and the long name of test_get_subject__msg_greater_than_50
Repos ==
    { Str(<<84, 69, 83, 84, 47, 105, 116>>),
      Str(<<84, 69, 83, 84, 47, 114, 101, 97, 108, 108, 108, 108, 108, 108, 108, 108, 108,
            108, 108, 108, 108, 108, 108, 121, 121, 121, 121, 121, 121, 121, 121, 121,
            121, 121, 45, 108, 111, 111, 111, 111, 111, 111, 111, 111, 111, 111, 111, 111,
            111, 110, 103>>) }

SubjectCalls ==
    { [fn |-> "_get_subject", repo |-> repo, lines |-> lines, ended |-> ended,
       message |-> Str(MessageOf(lines, eol, ended))] :
        repo \in Repos, eol \in LineEnds,
        lines \in UNION {[1..n -> LineTexts] : n \in 1..MaxLines},
        ended \in BOOLEAN }
    \cup { [fn |-> "_get_subject", repo |-> repo, lines |-> <<>>, ended |-> FALSE,
             message |-> Str(<<>>)] : repo \in Repos }

InitSubject ==
    /\ environ \in {Environ(Unset, Unset, Unset, Unset, Unset, Unset, Unset)}
    /\ request = NoRequest /\ pc = "call" /\ response = NoResponse /\ log = <<>>
    /\ secret = PyNone /\ json_dict = PyNone /\ changes = PyNone /\ pusher_email = PyNone
    /\ lookup = NoLookup /\ prURL = PyNone /\ msg_info = PyNone
    /\ message = PyNone /\ smtp = <<>> /\ outbox = <<>>
    /\ call \in {c \in SubjectCalls :
                    c.lines = <<>> \/ c.ended \/ c.lines[Len(c.lines)] # <<>>}
    /\ ret = PyNone

SubjectCall ==
    /\ pc = "call"
    /\ ret' = _get_subject(call.repo, call.message)
    /\ End(Returned)
    /\ UNCHANGED <<environ, request, log, secret, json_dict, changes, pusher_email,
                   lookup, prURL, msg_info, message, smtp, outbox, call>>

SpecSubject == InitSubject /\ [][SubjectCall]_vars

\* the line the subject is made of: the third line of a message of three
\* lines or more, the first line of a shorter one, nothing where the
\* message has no line
SeedLine ==
    IF Len(call.lines) >= 3 THEN call.lines[3]
    ELSE IF Len(call.lines) >= 1 THEN call.lines[1]
    ELSE <<>>

RelayCalls ==
    LET made == SelectSeq(log, LAMBDA c : c.fn \in {"smtplib.SMTP", "login", "sendmail", "quit"})
    IN [i \in 1..Len(made) |-> made[i].fn]

\* the relay was called in the order open, authenticate, transmit, close,
\* each step once at most, and one connection at most was opened
OneAttemptInOrder ==
    /\ Len(smtp) <= 1 /\ Len(outbox) <= 1
    /\ Len(RelayCalls) <= 4
    /\ RelayCalls = SubSeq(<<"smtplib.SMTP", "login", "sendmail", "quit">>, 1, Len(RelayCalls))

\* a send that did not reach quit ended the request with the relay's error
FailurePropagates ==
    (pc = "done" /\ RelayCalls # <<>> /\ ~WasCalled("quit")) =>
        /\ response.t = "error"
        /\ response.exc \in {"SMTPConnectError", "SMTPAuthenticationError", "SMTPRecipientsRefused"}

\* C13: for one webhook request the relay is used once at most, in the order
\* open, authenticate, transmit, close; a failure of the relay ends the
\* request with that error and nothing is tried again; and when the request
\* has ended, every connection that was opened is closed.
SingleAttemptThenClosed ==
    /\ OneAttemptInOrder
    /\ FailurePropagates
    /\ pc = "done" => \A i \in 1..Len(smtp) : smtp[i].state = "closed"
====
